---- MODULE Spec2Model ----
(***************************************************************************)
(* A model of gotel's trace/metric storage engine: the ingestion path      *)
(* (sqliteExporter.pushTraces), the SQLite store with its process-local    *)
(* read/write lock (sqlite.Store), the retention loop and the exporter's   *)
(* start/shutdown lifecycle.                                               *)
(*                                                                         *)
(* Conventions.  A Go string is a sequence of one-character strings, so    *)
(* that sanitising and joining are computed character by character.  A     *)
(* float64 is the exact fraction it stands for, <<numerator, denominator>> *)
(* in lowest terms (rounding is not modelled).  Wall-clock readings that   *)
(* the code truncates to epoch seconds are whole seconds.  A JSON document *)
(* is the record it encodes.                                               *)
(***************************************************************************)
EXTENDS Integers, Sequences, FiniteSets, TLC

VARIABLES
    cfg,        \* e.config: [StoreTraces, SendMetrics, Namespace, Retention, QueryPort]
    now,        \* the wall clock, epoch seconds
    spans,      \* table spans:   [rows: set of span rows,   seq: last rowid used]
    metrics,    \* table metrics: [rows: set of metric rows, seq: last rowid used]
    hist,       \* history of the store, see NoHistory
    mu,         \* Store.mu, a sync.RWMutex: [w, held, readers]
    push,       \* the store's writing client: a pushTraces call, or a direct
                \* InsertSpan / InsertMetric call, see IdlePush
    loop,       \* the retention goroutine runCleanup and its Cleanup call
    rd,         \* the store reads of the HTTP handlers, one per handler
    life        \* the exporter's lifecycle: start, shutdown, HTTP server

vars == <<cfg, now, spans, metrics, hist, mu, push, loop, rd, life>>

-----------------------------------------------------------------------------
(* Bounds of the model *)

MaxSpans == 2        \* spans in one pushed batch
MaxClock == 2        \* last second the clock reaches
MaxPushes == 1       \* calls of the writing client in one behaviour
NumHandlers == 1     \* HTTP handlers that may run at the same time
NumReaders == 5      \* trace lookups that may run at the same time
MaxStored == 3       \* span rows InsertSpan puts into the table
MaxRuns == 2         \* runs of like spans in the table the list endpoints read
MaxChars == 2        \* characters of a metric name and of a metric query
MaxIndices == 2      \* indices given to aliasByNode

-----------------------------------------------------------------------------
(* Strings *)

RECURSIVE Join(_, _)
\* strings.Join(parts, sep)
Join(parts, sep) ==
    IF parts = <<>> THEN <<>>
    ELSE IF Len(parts) = 1 THEN parts[1]
    ELSE parts[1] \o sep \o Join(Tail(parts), sep)

\* the characters metricNameReplacer rewrites to "_"
metricNameReplacer ==
    {" ", "/", "\\", ":", "=", ";", "(", ")", "[", "]", "{", "}"}

sanitizeMetricName_Identity(name) == name

\* sanitizeMetricName: every listed character becomes "_"
sanitizeMetricName(name) ==
    [i \in DOMAIN name |-> IF name[i] \in metricNameReplacer THEN "_" ELSE name[i]]

defaultPrefix == <<"o", "t", "e", "l">>
unknownService == <<"u", "n", "k", "n", "o", "w", "n">>
SpanCountSuffix == <<"s", "p", "a", "n", "_", "c", "o", "u", "n", "t">>
DurationMsSuffix == <<"d", "u", "r", "a", "t", "i", "o", "n", "_", "m", "s">>
ErrorCountSuffix == <<"e", "r", "r", "o", "r", "_", "c", "o", "u", "n", "t">>

\* buildPrefix: prefix[.namespace].service.span
buildPrefix(c, serviceName, spanName) ==
    Join(<<defaultPrefix>>
           \o (IF c.Namespace /= <<>> THEN <<c.Namespace>> ELSE <<>>)
           \o <<serviceName, spanName>>, <<".">>)

\* fmt.Sprintf("%s.<suffix>", prefix)
MetricName(prefix, suffix) == prefix \o <<".">> \o suffix

-----------------------------------------------------------------------------
(* Numbers *)

NsPerMs == 1000000
StatusCodeError == 2

RECURSIVE GCD(_, _)
GCD(a, b) == IF b = 0 THEN a ELSE GCD(b, a % b)

\* the float64 n/d (n >= 0, d > 0) as a fraction in lowest terms
Float(n, d) == LET g == GCD(n, d) IN <<n \div g, d \div g>>

DurationNs_Unclamped(span) == span.end - span.start

\* end - start, negative durations clamped to 0 (kept in nanoseconds; the
\* code's float64 milliseconds are DurationNs / NsPerMs)
DurationNs(span) ==
    IF span.end - span.start < 0 THEN 0 ELSE span.end - span.start

-----------------------------------------------------------------------------
(* pushTraces: from a batch to span JSONs and metric records *)

\* resource.Attributes().Get("service.name"), default "unknown"
ServiceNameRaw(resource) ==
    IF "service.name" \in DOMAIN resource THEN resource["service.name"]
    ELSE unknownService

\* spanToJSON: the document stored for a span
spanToJSON(span, resource) ==
    [ service_name         |-> ServiceNameRaw(resource),
      span_name            |-> span.name,
      start_time_unix_nano |-> span.start,
      end_time_unix_nano   |-> span.end,
      duration_ms          |-> Float(DurationNs(span), NsPerMs),
      status               |-> [code |-> span.code] ]

\* json.Marshal fails on a span that carries a NaN or infinite attribute
MarshalFails(span) == ~span.marshals

\* &spanAggregation{rawSpanName: spanNameRaw}
NewAgg(spanNameRaw) ==
    [rawSpanName |-> spanNameRaw, count |-> 0, totalDuration |-> 0, errorCount |-> 0]

Aggregate_CountErrorsOnly(agg, span) ==
    [agg EXCEPT !.count = IF span.code = StatusCodeError THEN @ + 1 ELSE @,
                !.totalDuration = @ + DurationNs(span),
                !.errorCount = IF span.code = StatusCodeError THEN @ + 1 ELSE @]

\* the aggregation block of the span loop
Aggregate(agg, span) ==
    [agg EXCEPT !.count = @ + 1,
                !.totalDuration = @ + DurationNs(span),
                !.errorCount = IF span.code = StatusCodeError THEN @ + 1 ELSE @]

SpanStep_CountsUnmarshalled(c, st, span, resource) ==
    LET key  == sanitizeMetricName(span.name)
        agg0 == IF key \in DOMAIN st.aggs THEN st.aggs[key] ELSE NewAgg(span.name)
    IN  [ jsons |-> IF c.StoreTraces /\ ~MarshalFails(span)
                    THEN Append(st.jsons, spanToJSON(span, resource))
                    ELSE st.jsons,
          aggs  |-> IF c.SendMetrics
                    THEN (key :> Aggregate(agg0, span)) @@ st.aggs
                    ELSE st.aggs ]

\* one iteration of the span loop; st = [jsons, aggs]
SpanStep(c, st, span, resource) ==
    LET key  == sanitizeMetricName(span.name)
        agg0 == IF key \in DOMAIN st.aggs THEN st.aggs[key] ELSE NewAgg(span.name)
    IN  IF c.StoreTraces /\ MarshalFails(span)
        THEN st     \* logged; continue
        ELSE [ jsons |-> IF c.StoreTraces
                         THEN Append(st.jsons, spanToJSON(span, resource))
                         ELSE st.jsons,
               aggs  |-> IF c.SendMetrics
                         THEN (key :> Aggregate(agg0, span)) @@ st.aggs
                         ELSE st.aggs ]

RECURSIVE SpanLoop(_, _, _, _)
SpanLoop(c, st, spanSeq, resource) ==
    IF spanSeq = <<>> THEN st
    ELSE SpanLoop(c, SpanStep(c, st, Head(spanSeq), resource), Tail(spanSeq), resource)

\* the records emitted for one aggregator
AggMetrics(c, resource, key, agg, timestamp) ==
    LET prefix == buildPrefix(c, sanitizeMetricName(ServiceNameRaw(resource)), key)
        tags   == [service |-> ServiceNameRaw(resource), span |-> agg.rawSpanName]
        rec(suffix, value) ==
            [Name |-> MetricName(prefix, suffix), Value |-> value,
             Timestamp |-> timestamp, Tags |-> tags]
    IN  <<rec(SpanCountSuffix, Float(agg.count, 1))>>
        \o (IF agg.count > 0
            THEN <<rec(DurationMsSuffix, Float(agg.totalDuration, NsPerMs * agg.count))>>
            ELSE <<>>)
        \o (IF agg.errorCount > 0
            THEN <<rec(ErrorCountSuffix, Float(agg.errorCount, 1))>>
            ELSE <<>>)

RECURSIVE GenerateMetrics(_, _, _, _, _)
\* "for spanNameMetric, agg := range spanAggs": keys is the order in which the
\* map is ranged over, which Go leaves unspecified
GenerateMetrics(c, resource, aggs, keys, timestamp) ==
    IF keys = <<>> THEN <<>>
    ELSE IF Head(keys) \in DOMAIN aggs
         THEN AggMetrics(c, resource, Head(keys), aggs[Head(keys)], timestamp)
              \o GenerateMetrics(c, resource, aggs, Tail(keys), timestamp)
         ELSE GenerateMetrics(c, resource, aggs, Tail(keys), timestamp)

ScopeGroup_MetricsOfStoredSpans(c, group, keys, timestamp) ==
    LET st == SpanLoop(c, [jsons |-> <<>>, aggs |-> <<>>], group.spans, group.resource)
    IN  [ jsons   |-> st.jsons,
          metrics |-> IF c.SendMetrics /\ c.StoreTraces
                      THEN GenerateMetrics(c, group.resource, st.aggs, keys, timestamp)
                      ELSE <<>> ]

\* one scope group: the span loop, then the metrics of its aggregators
ScopeGroup(c, group, keys, timestamp) ==
    LET st == SpanLoop(c, [jsons |-> <<>>, aggs |-> <<>>], group.spans, group.resource)
    IN  [ jsons   |-> st.jsons,
          metrics |-> IF c.SendMetrics
                      THEN GenerateMetrics(c, group.resource, st.aggs, keys, timestamp)
                      ELSE <<>> ]

RECURSIVE Collect(_, _, _, _, _)
\* the loops over td.ResourceSpans() and rs.ScopeSpans(); a batch is the
\* sequence of its scope groups, each with the resource it belongs to
Collect(c, batch, order, timestamp, i) ==
    IF i > Len(batch) THEN [jsons |-> <<>>, metrics |-> <<>>]
    ELSE LET g    == ScopeGroup(c, batch[i], order[i], timestamp)
             rest == Collect(c, batch, order, timestamp, i + 1)
         IN  [jsons |-> g.jsons \o rest.jsons, metrics |-> g.metrics \o rest.metrics]

-----------------------------------------------------------------------------
(* The store: two tables, written inside transactions *)

EmptyTable == [rows |-> {}, seq |-> 0]

InsertSpanRow_Overwrites(tbl, json, createdAt, batch) ==
    [ rows |-> {row \in tbl.rows : row.id # tbl.seq} \cup
                 {[id |-> IF tbl.seq = 0 THEN 1 ELSE tbl.seq, data |-> json,
                   created_at |-> createdAt, batch |-> batch]},
      seq  |-> IF tbl.seq = 0 THEN 1 ELSE tbl.seq ]

\* INSERT INTO spans (data) VALUES (?): rowid from AUTOINCREMENT, created_at
\* from DEFAULT (strftime('%s','now')).  batch is history: the call that
\* wrote the row.
InsertSpanRow(tbl, json, createdAt, batch) ==
    [ rows |-> tbl.rows \cup
                 {[id |-> tbl.seq + 1, data |-> json, created_at |-> createdAt,
                   batch |-> batch]},
      seq  |-> tbl.seq + 1 ]

\* the generated column duration_ns of a span row:
\* json_extract(data, '$.end_time_unix_nano') - json_extract(data, '$.start_time_unix_nano')
duration_ns(data) == data.end_time_unix_nano - data.start_time_unix_nano

\* INSERT INTO metrics (name, value, timestamp, tags) VALUES (?, ?, ?, ?)
InsertMetricRow(tbl, rec, batch) ==
    [ rows |-> tbl.rows \cup
                 {[id |-> tbl.seq + 1, name |-> rec.Name, value |-> rec.Value,
                   timestamp |-> rec.Timestamp, tags |-> rec.Tags, batch |-> batch]},
      seq  |-> tbl.seq + 1 ]

\* db.BeginTx: the transaction works on its own view of the two tables
BeginTx(s, m) == [spans |-> s, metrics |-> m]

Rollback_KeepsWrites(committed, view) == view

\* tx.Rollback (deferred): the view is dropped, the tables stay as committed
Rollback(committed, view) == committed

Commit_SpansOnly(committed, view) ==
    [spans |-> view.spans, metrics |-> committed.metrics]

\* tx.Commit: the view becomes the committed tables
Commit(committed, view) == view

-----------------------------------------------------------------------------
(* Store.mu: sync.RWMutex.  w is the writer that holds the mutex's inner     *)
(* writer lock (it has announced itself, so new readers wait); held says it  *)
(* has also seen the last reader leave; readers are the read-side holders.   *)

NoOne == "none"
FreeMu == [w |-> NoOne, held |-> FALSE, readers |-> {}]

\* mu.Lock(), first half: take the writer lock and announce the writer
CanLock(m) == m.w = NoOne
LockAnnounce(m, p) == [m EXCEPT !.w = p]

CanEnterWrite_IgnoresReaders(m, p) == m.w = p /\ ~m.held

\* mu.Lock(), second half: wait until no reader is inside
CanEnterWrite(m, p) == m.w = p /\ ~m.held /\ m.readers = {}
EnterWrite(m) == [m EXCEPT !.held = TRUE]

\* mu.Unlock()
Unlock(m) == [m EXCEPT !.w = NoOne, !.held = FALSE]

CanRLock_IgnoresWriter(m) == TRUE

\* mu.RLock(): blocked while a writer holds or has announced itself
CanRLock(m) == m.w = NoOne
RLock(m, r) == [m EXCEPT !.readers = @ \cup {r}]

\* mu.RUnlock()
RUnlock(m, r) == [m EXCEPT !.readers = @ \ {r}]

\* who is inside the store
WriterInside(m) == m.w /= NoOne /\ m.held

-----------------------------------------------------------------------------
(* Inputs *)

NameA1 == <<"a", " ">>
NameA2 == <<"a", "/">>
NameB == <<"b">>
SpanNames == {NameA1, NameA2, NameB}

\* <<start, end, status code, marshals>>
SpanShapes == {<<1, 3, 0, TRUE>>, <<3, 1, 2, TRUE>>, <<1, 5, 2, FALSE>>}

Span(name, shape) ==
    [name |-> name, start |-> shape[1], end |-> shape[2], code |-> shape[3],
     marshals |-> shape[4]]

AllSpans == {Span(n, sh) : n \in SpanNames, sh \in SpanShapes}

Resources == {<<>>, [x \in {"service.name"} |-> <<"s", " ">>]}

Namespaces == {<<>>, <<"n">>}

\* sequences over S of length at most n
SeqsUpTo(S, n) == UNION {[1..k -> S] : k \in 0..n}

\* the orders a Go map over the sanitised names may be ranged in
AllKeys == {sanitizeMetricName(n) : n \in SpanNames}
KeyOrders == {o \in [1..Cardinality(AllKeys) -> AllKeys] : \A i, j \in DOMAIN o : i /= j => o[i] /= o[j]}

Configs(namespaces, retentions, ports) ==
    [StoreTraces : BOOLEAN, SendMetrics : BOOLEAN, Namespace : namespaces,
     Retention : retentions, QueryPort : ports]

defaultQueryPort == 3200

-----------------------------------------------------------------------------
(* The pushTraces call *)

IdlePush ==
    [ pc |-> "idle",      \* idle, lock, wait, begin, spans, metrics, commit, exec, done
      op |-> "none",      \* pushTraces, InsertSpan, InsertMetric
      n |-> 0,            \* history: number of this call (its rows' batch)
      batch |-> <<>>,     \* history: the batch pushed
      jsons |-> <<>>,     \* spanJSONs
      recs |-> <<>>,      \* metrics
      k |-> 0,            \* index of the statement loops
      tx |-> BeginTx(EmptyTable, EmptyTable),
      err |-> FALSE,      \* the returned error is non-nil
      before |-> BeginTx(EmptyTable, EmptyTable) ]
                          \* history: the committed tables when the call was made

\* pushTraces up to the InsertData call: read the clock, collect
Collected(c, batch, order, timestamp) == Collect(c, batch, order, timestamp, 1)

NeedsInsert_SpansOnly(col) == Len(col.jsons) > 0

\* len(spanJSONs) > 0 || len(metrics) > 0
NeedsInsert(col) == Len(col.jsons) > 0 \/ Len(col.metrics) > 0


\* history kept for the properties: the rows Cleanup has deleted, as
\* <<table, row>>; per pushTraces call the size of what it collected; and
\* whether no row was inserted since the last Cleanup that succeeded
NoHistory == [purged |-> {}, full |-> <<>>, quiet |-> FALSE, lastCutoff |-> 0]

Committed == [spans |-> spans, metrics |-> metrics]

RECURSIVE InsertSpans(_, _, _, _)
\* InsertData: the loop over spans
InsertSpans(tbl, jsons, createdAt, batch) ==
    IF jsons = <<>> THEN tbl
    ELSE InsertSpans(InsertSpanRow(tbl, Head(jsons), createdAt, batch), Tail(jsons),
                     createdAt, batch)

RECURSIVE InsertMetrics(_, _, _)
\* InsertData: the loop over metrics
InsertMetrics(tbl, recs, batch) ==
    IF recs = <<>> THEN tbl
    ELSE InsertMetrics(InsertMetricRow(tbl, Head(recs), batch), Tail(recs), batch)

\* InsertData from BeginTx to its return: every statement runs in the
\* transaction, which then commits (ok) or, after a failure, is rolled back
InsertData(committed, jsons, recs, createdAt, batch, ok) ==
    LET view == [spans |-> InsertSpans(committed.spans, jsons, createdAt, batch),
                 metrics |-> InsertMetrics(committed.metrics, recs, batch)]
    IN  IF ok THEN Commit(committed, view) ELSE Rollback(committed, view)

PushStart(batches) ==
    /\ life.store = "open"
    /\ push.pc \in {"idle", "done"}
    /\ push.n < MaxPushes
    /\ \E batch \in batches : \E order \in [1..Len(batch) -> KeyOrders] :
         LET col == Collected(cfg, batch, order, now)
         IN  /\ push' = [IdlePush EXCEPT
                           !.pc = IF NeedsInsert(col) THEN "lock" ELSE "done",
                           !.op = "pushTraces", !.n = push.n + 1, !.batch = batch,
                           !.jsons = col.jsons, !.recs = col.metrics,
                           !.before = Committed]
             /\ hist' = [hist EXCEPT !.full = Append(@,
                           [ns |-> Len(col.jsons), nm |-> Len(col.metrics)])]
    /\ UNCHANGED <<cfg, now, spans, metrics, mu, loop, rd, life>>

\* a direct call of Store.InsertSpan or Store.InsertMetric (as the store's
\* tests make them), up to s.mu.Lock()
InsertCall ==
    /\ life.store = "open"
    /\ push.pc \in {"idle", "done"}
    /\ push.n < MaxPushes
    /\ \E op \in {"InsertSpan", "InsertMetric"} :
         /\ push' = [IdlePush EXCEPT !.pc = "lock", !.op = op, !.n = push.n + 1,
                                     !.before = Committed]
         /\ hist' = [hist EXCEPT !.full = Append(@,
                       [ns |-> IF op = "InsertSpan" THEN 1 ELSE 0,
                        nm |-> IF op = "InsertMetric" THEN 1 ELSE 0])]
    /\ UNCHANGED <<cfg, now, spans, metrics, mu, loop, rd, life>>

\* InsertSpan, InsertMetric: the single INSERT, committed on its own, or its
\* failure; then the deferred Unlock
InsertExec ==
    /\ push.pc = "exec"
    /\ \E ok \in BOOLEAN :
         /\ spans' = IF ok /\ push.op = "InsertSpan"
                     THEN InsertSpanRow(spans,
                            spanToJSON(Span(NameB, <<1, 3, 0, TRUE>>), <<>>), now, push.n)
                     ELSE spans
         /\ metrics' = IF ok /\ push.op = "InsertMetric"
                       THEN InsertMetricRow(metrics,
                              [Name |-> <<"m">>, Value |-> Float(1, 1), Timestamp |-> now,
                               Tags |-> <<>>], push.n)
                       ELSE metrics
         /\ hist' = IF ok THEN [hist EXCEPT !.quiet = FALSE] ELSE hist
         /\ push' = [push EXCEPT !.pc = "done", !.err = ~ok]
    /\ mu' = Unlock(mu)
    /\ UNCHANGED <<cfg, now, loop, rd, life>>

\* InsertData, InsertSpan, InsertMetric: s.mu.Lock()
PushLock ==
    /\ push.pc = "lock"
    /\ CanLock(mu)
    /\ mu' = LockAnnounce(mu, "push")
    /\ push' = [push EXCEPT !.pc = "wait"]
    /\ UNCHANGED <<cfg, now, spans, metrics, hist, loop, rd, life>>

PushEnter ==
    /\ push.pc = "wait"
    /\ CanEnterWrite(mu, "push")
    /\ mu' = EnterWrite(mu)
    /\ push' = [push EXCEPT !.pc = IF push.op = "pushTraces" THEN "begin" ELSE "exec"]
    /\ UNCHANGED <<cfg, now, spans, metrics, hist, loop, rd, life>>

\* the statement loop that follows position pc
NextStage(p, pc) ==
    IF pc = "begin" /\ Len(p.jsons) > 0 THEN "spans"
    ELSE IF pc \in {"begin", "spans"} /\ Len(p.recs) > 0 THEN "metrics"
    ELSE "commit"

\* InsertData: s.db.BeginTx succeeds
PushBegin ==
    /\ push.pc = "begin"
    /\ push' = [push EXCEPT !.pc = NextStage(push, "begin"), !.k = 1,
                            !.tx = BeginTx(spans, metrics)]
    /\ UNCHANGED <<cfg, now, spans, metrics, hist, mu, loop, rd, life>>

\* InsertData: BeginTx fails; the deferred Unlock runs, pushTraces returns the error
PushBeginFails ==
    /\ push.pc = "begin"
    /\ push' = [push EXCEPT !.pc = "done", !.err = TRUE]
    /\ mu' = Unlock(mu)
    /\ UNCHANGED <<cfg, now, spans, metrics, hist, loop, rd, life>>

\* InsertData: one stmt.ExecContext of the spans loop succeeds
PushExecSpan ==
    /\ push.pc = "spans"
    /\ push' = [push EXCEPT
                  !.tx.spans = InsertSpanRow(@, push.jsons[push.k], now, push.n),
                  !.k = IF push.k < Len(push.jsons) THEN push.k + 1 ELSE 1,
                  !.pc = IF push.k < Len(push.jsons) THEN "spans"
                         ELSE NextStage(push, "spans")]
    /\ UNCHANGED <<cfg, now, spans, metrics, hist, mu, loop, rd, life>>

\* InsertData: one stmt.ExecContext of the metrics loop succeeds
PushExecMetric ==
    /\ push.pc = "metrics"
    /\ push' = [push EXCEPT
                  !.tx.metrics = InsertMetricRow(@, push.recs[push.k], push.n),
                  !.k = IF push.k < Len(push.recs) THEN push.k + 1 ELSE 1,
                  !.pc = IF push.k < Len(push.recs) THEN "metrics" ELSE "commit"]
    /\ UNCHANGED <<cfg, now, spans, metrics, hist, mu, loop, rd, life>>

\* InsertData: tx.Commit succeeds; Unlock; pushTraces returns nil
PushCommit ==
    /\ push.pc = "commit"
    /\ LET c == Commit(Committed, push.tx)
       IN  /\ spans' = c.spans
           /\ metrics' = c.metrics
    /\ mu' = Unlock(mu)
    /\ push' = [push EXCEPT !.pc = "done", !.err = FALSE]
    /\ hist' = [hist EXCEPT !.quiet = FALSE]
    /\ UNCHANGED <<cfg, now, loop, rd, life>>

\* InsertData: a PrepareContext, an ExecContext or the Commit fails (an I/O
\* error, a cancelled context); the deferred Rollback and Unlock run and
\* pushTraces returns the wrapped error
PushFails ==
    /\ push.pc \in {"spans", "metrics", "commit"}
    /\ LET c == Rollback(Committed, push.tx)
       IN  /\ spans' = c.spans
           /\ metrics' = c.metrics
    /\ mu' = Unlock(mu)
    /\ push' = [push EXCEPT !.pc = "done", !.err = TRUE]
    /\ UNCHANGED <<cfg, now, hist, loop, rd, life>>

\* a whole pushTraces call made while no other goroutine is inside the store:
\* collect, InsertData when there is something to insert, return.  calls
\* bounds the number of calls made.
PushTraces(batches, calls) ==
    /\ life.store = "open"
    /\ push.pc \in {"idle", "done"}
    /\ push.n < calls
    /\ CanLock(mu) /\ CanEnterWrite(LockAnnounce(mu, "push"), "push")
    /\ \E batch \in batches : \E order \in [1..Len(batch) -> KeyOrders] : \E ok \in BOOLEAN :
         \E col \in {Collected(cfg, batch, order, now)} :
         \E done \in {IF NeedsInsert(col)
                       THEN InsertData(Committed, col.jsons, col.metrics, now, push.n + 1, ok)
                       ELSE Committed} :
             /\ spans' = done.spans
             /\ metrics' = done.metrics
             /\ push' = [IdlePush EXCEPT
                           !.pc = "done", !.op = "pushTraces", !.n = push.n + 1,
                           !.batch = batch, !.jsons = col.jsons, !.recs = col.metrics,
                           !.err = NeedsInsert(col) /\ ~ok, !.before = Committed]
             /\ hist' = [hist EXCEPT
                           !.full = Append(@, [ns |-> Len(col.jsons), nm |-> Len(col.metrics)]),
                           !.quiet = IF NeedsInsert(col) /\ ok THEN FALSE ELSE @]
    /\ UNCHANGED <<cfg, now, mu, loop, rd, life>>

\* wall-clock time passes
Tick ==
    /\ now < MaxClock
    /\ now' = now + 1
    /\ UNCHANGED <<cfg, spans, metrics, hist, mu, push, loop, rd, life>>

-----------------------------------------------------------------------------
(* Store.Cleanup and the retention goroutine runCleanup *)

\* time.Now().Add(-retention).Unix()
Cutoff(t, retention) == t - retention

IsOld_Inclusive(stamp, cutoff) == stamp <= cutoff

\* "created_at < ?", "timestamp < ?"
IsOld(stamp, cutoff) == stamp < cutoff

\* DELETE FROM spans WHERE created_at < ?
OldSpans(tbl, cutoff) == {r \in tbl.rows : IsOld(r.created_at, cutoff)}

\* DELETE FROM metrics WHERE timestamp < ?
OldMetrics(tbl, cutoff) == {r \in tbl.rows : IsOld(r.timestamp, cutoff)}

Without_KeepsRows(tbl, gone) == tbl

\* the table without the rows a DELETE removed
Without(tbl, gone) == [tbl EXCEPT !.rows = @ \ gone]

IdleLoop ==
    [ pc |-> "off",          \* off, select, lock, wait, spans, metrics, returned, exit
      at |-> 0,              \* history: the clock when Cleanup computed its cutoff
      cutoff |-> 0,
      spansDeleted |-> 0,
      deleted |-> 0,         \* Cleanup's first result
      err |-> FALSE,         \* Cleanup's second result is non-nil
      failedAt |-> "none",   \* history: the statement that failed
      logged |-> FALSE,      \* "Cleanup failed" was logged for the last Cleanup
      snap |-> [spans |-> EmptyTable, metrics |-> EmptyTable],
                             \* history: the tables when Cleanup entered the store
      quiet |-> FALSE,       \* history: hist.quiet when Cleanup entered the store
      lastCutoff |-> 0 ]     \* history: hist.lastCutoff when Cleanup entered

\* runCleanup: case <-ticker.C, the call of Store.Cleanup up to s.mu.Lock()
LoopTick ==
    /\ loop.pc = "select"
    /\ loop' = [loop EXCEPT !.pc = "lock", !.logged = FALSE]
    /\ UNCHANGED <<cfg, now, spans, metrics, hist, mu, push, rd, life>>

\* runCleanup: case <-e.cleanupCtx.Done(): return, and the deferred wg.Done()
LoopCancelled ==
    /\ loop.pc = "select"
    /\ life.cancelled
    /\ loop' = [loop EXCEPT !.pc = "exit"]
    /\ life' = [life EXCEPT !.wg = @ \ {"loop"}]
    /\ UNCHANGED <<cfg, now, spans, metrics, hist, mu, push, rd>>

\* Cleanup: s.mu.Lock()
CleanupLock ==
    /\ loop.pc = "lock"
    /\ CanLock(mu)
    /\ mu' = LockAnnounce(mu, "loop")
    /\ loop' = [loop EXCEPT !.pc = "wait"]
    /\ UNCHANGED <<cfg, now, spans, metrics, hist, push, rd, life>>

\* Cleanup: Lock returns; cutoff := time.Now().Add(-retention).Unix()
CleanupEnter ==
    /\ loop.pc = "wait"
    /\ CanEnterWrite(mu, "loop")
    /\ mu' = EnterWrite(mu)
    /\ loop' = [loop EXCEPT !.pc = "spans", !.at = now,
                            !.cutoff = Cutoff(now, cfg.Retention),
                            !.spansDeleted = 0, !.deleted = 0, !.err = FALSE,
                            !.failedAt = "none",
                            !.snap = Committed, !.quiet = hist.quiet,
                            !.lastCutoff = hist.lastCutoff]
    /\ UNCHANGED <<cfg, now, spans, metrics, hist, push, rd, life>>

\* Cleanup: the first DELETE succeeds (ExecContext refuses a cancelled context)
CleanupSpans ==
    /\ loop.pc = "spans"
    /\ ~life.cancelled
    /\ LET gone == OldSpans(spans, loop.cutoff)
       IN  /\ spans' = Without(spans, gone)
           /\ hist' = [hist EXCEPT !.purged = @ \cup {<<"spans", r>> : r \in gone}]
           /\ loop' = [loop EXCEPT !.pc = "metrics", !.spansDeleted = Cardinality(gone)]
    /\ UNCHANGED <<cfg, now, metrics, mu, push, rd, life>>

\* Cleanup: the first DELETE fails: return 0, err
CleanupSpansFails ==
    /\ loop.pc = "spans"
    /\ loop' = [loop EXCEPT !.pc = "returned", !.deleted = 0, !.err = TRUE,
                            !.failedAt = "spans"]
    /\ hist' = [hist EXCEPT !.quiet = FALSE]
    /\ mu' = Unlock(mu)
    /\ UNCHANGED <<cfg, now, spans, metrics, push, rd, life>>

\* Cleanup: the second DELETE succeeds: return spansDeleted + metricsDeleted, nil
CleanupMetrics ==
    /\ loop.pc = "metrics"
    /\ ~life.cancelled
    /\ LET gone == OldMetrics(metrics, loop.cutoff)
       IN  /\ metrics' = Without(metrics, gone)
           /\ hist' = [hist EXCEPT !.purged = @ \cup {<<"metrics", r>> : r \in gone},
                                   !.quiet = TRUE, !.lastCutoff = loop.cutoff]
           /\ loop' = [loop EXCEPT !.pc = "returned",
                                   !.deleted = loop.spansDeleted + Cardinality(gone),
                                   !.err = FALSE]
    /\ mu' = Unlock(mu)
    /\ UNCHANGED <<cfg, now, spans, push, rd, life>>

CleanupMetricsFails_RollsBack ==
    /\ loop.pc = "metrics"
    /\ loop' = [loop EXCEPT !.pc = "returned", !.deleted = 0,
                            !.err = TRUE, !.failedAt = "metrics"]
    /\ spans' = loop.snap.spans
    /\ hist' = [hist EXCEPT !.quiet = FALSE]
    /\ mu' = Unlock(mu)
    /\ UNCHANGED <<cfg, now, metrics, push, rd, life>>

\* Cleanup: the second DELETE fails: return spansDeleted, err
CleanupMetricsFails ==
    /\ loop.pc = "metrics"
    /\ loop' = [loop EXCEPT !.pc = "returned", !.deleted = loop.spansDeleted,
                            !.err = TRUE, !.failedAt = "metrics"]
    /\ hist' = [hist EXCEPT !.quiet = FALSE]
    /\ mu' = Unlock(mu)
    /\ UNCHANGED <<cfg, now, spans, metrics, push, rd, life>>

\* after an error, runCleanup returns only when the context is cancelled
ReturnsAfterError_Always(cancelled) == TRUE

ReturnsAfterError(cancelled) == cancelled

\* runCleanup: the branches after Cleanup returned
LoopAfter ==
    /\ loop.pc = "returned"
    /\ IF loop.err /\ ReturnsAfterError(life.cancelled)
       THEN /\ loop' = [loop EXCEPT !.pc = "exit"]
            /\ life' = [life EXCEPT !.wg = @ \ {"loop"}]
       ELSE /\ loop' = [loop EXCEPT !.pc = "select", !.logged = loop.err]
            /\ life' = life
    /\ UNCHANGED <<cfg, now, spans, metrics, hist, mu, push, rd>>

-----------------------------------------------------------------------------
(* Store reads, called by the HTTP handlers *)

Handlers == 1..NumHandlers

\* QuerySpans stands for the reads that run one SELECT on spans
\* (QueryTraceByID, QuerySpans, QuerySpansByTime, SearchTraces, ListServices,
\* ListOperations), QueryMetrics for the one that runs one SELECT on
\* metrics, Stats for the one that runs a SELECT on each
ReadKinds == {"QuerySpans", "QueryMetrics", "Stats"}

IdleRead == [pc |-> "idle", kind |-> "none", s |-> <<>>, m |-> <<>>, conn |-> FALSE]

\* history: what a SELECT on table t sees of each pushed batch:
\* <<rows of the batch it returns, rows of the batch Cleanup deleted before>>
Seen(tbl, t) ==
    [b \in 1..MaxPushes |->
        << Cardinality({r \in tbl.rows : r.batch = b}),
           Cardinality({x \in hist.purged : x[1] = t /\ x[2].batch = b}) >>]

\* a request arrives at the serving HTTP server and its handler calls the store
HandlerStart(r) ==
    /\ life.server = "serving"
    /\ rd[r].pc = "idle"
    /\ \E kind \in ReadKinds :
         rd' = [rd EXCEPT ![r] = [IdleRead EXCEPT !.pc = "rlock", !.kind = kind]]
    /\ UNCHANGED <<cfg, now, spans, metrics, hist, mu, push, loop, life>>

\* s.mu.RLock()
ReadLock(r) ==
    /\ rd[r].pc = "rlock"
    /\ CanRLock(mu)
    /\ mu' = RLock(mu, r)
    /\ rd' = [rd EXCEPT ![r].pc = IF rd[r].kind = "QueryMetrics" THEN "metrics" ELSE "spans"]
    /\ UNCHANGED <<cfg, now, spans, metrics, hist, push, loop, life>>

\* the SELECT on spans: it sees the committed table
ReadSpans(r) ==
    /\ rd[r].pc = "spans"
    /\ rd' = [rd EXCEPT ![r].s = Seen(spans, "spans"),
                        ![r].pc = IF rd[r].kind = "Stats" THEN "metrics" ELSE "runlock"]
    /\ UNCHANGED <<cfg, now, spans, metrics, hist, mu, push, loop, life>>

\* the SELECT on metrics
ReadMetrics(r) ==
    /\ rd[r].pc = "metrics"
    /\ rd' = [rd EXCEPT ![r].m = Seen(metrics, "metrics"), ![r].pc = "runlock"]
    /\ UNCHANGED <<cfg, now, spans, metrics, hist, mu, push, loop, life>>

\* the deferred s.mu.RUnlock(); the handler writes its response
ReadUnlock(r) ==
    /\ rd[r].pc = "runlock"
    /\ mu' = RUnlock(mu, r)
    /\ rd' = [rd EXCEPT ![r] = IdleRead]
    /\ UNCHANGED <<cfg, now, spans, metrics, hist, push, loop, life>>

\* The connection pool of database/sql. ReadSpans and ReadMetrics above run
\* a query in one step, which is exact while fewer than MaxOpenConns
\* goroutines use the store; the actions below split QueryTraceByID's query
\* into taking a connection and giving it back.

\* db.SetMaxOpenConns(4)
MaxOpenConns == 4

\* the connections that queries in progress hold
ConnsInUse == Cardinality({r \in DOMAIN rd : rd[r].conn})

ConnAvailable_PoolOfOne(inUse) == inUse < 1

\* database/sql hands out a connection while fewer than MaxOpenConns are in
\* use; otherwise the caller waits for one to be returned
ConnAvailable(inUse) == inUse < MaxOpenConns

\* handleGetTrace calls e.store.QueryTraceByID
GetTraceStart(r) ==
    /\ life.server = "serving"
    /\ rd[r].pc = "idle"
    /\ rd' = [rd EXCEPT ![r] = [IdleRead EXCEPT !.pc = "rlock", !.kind = "QuerySpans"]]
    /\ UNCHANGED <<cfg, now, spans, metrics, hist, mu, push, loop, life>>

\* s.db.QueryContext: the query takes a connection from the pool
QueryOpen(r) ==
    /\ rd[r].pc = "spans"
    /\ ~rd[r].conn
    /\ ConnAvailable(ConnsInUse)
    /\ rd' = [rd EXCEPT ![r].conn = TRUE]
    /\ UNCHANGED <<cfg, now, spans, metrics, hist, mu, push, loop, life>>

\* rows.Next() to the end and the deferred rows.Close(), which returns the
\* connection to the pool
QueryClose(r) ==
    /\ rd[r].pc = "spans"
    /\ rd[r].conn
    /\ rd' = [rd EXCEPT ![r].s = Seen(spans, "spans"), ![r].conn = FALSE,
                        ![r].pc = "runlock"]
    /\ UNCHANGED <<cfg, now, spans, metrics, hist, mu, push, loop, life>>

-----------------------------------------------------------------------------
(* Store.InsertSpan and Store.SearchTraces *)

\* s.db.ExecContext(ctx, "INSERT INTO spans (data) VALUES (?)", spanJSON),
\* under the write lock
InsertSpan(docs, maxRows) ==
    /\ mu = FreeMu
    /\ Cardinality(spans.rows) < maxRows
    /\ \E doc \in docs : spans' = InsertSpanRow(spans, doc, now, 0)
    /\ rd' = [r \in DOMAIN rd |-> IdleRead]
    /\ UNCHANGED <<cfg, now, metrics, hist, mu, push, loop, life>>

\* CASE WHEN parent_span_id IS NULL OR parent_span_id = ''
\*        OR parent_span_id = '0000000000000000' THEN 0 ELSE 1 END
RootRank_Ignored(data) == 0

RootRank(data) ==
    IF data.parent_span_id = "" \/ data.parent_span_id = "0000000000000000" THEN 0 ELSE 1

\* the WHERE clause of the CTE filtered: every filter that is set keeps the
\* spans of the traces that have some span passing it
InTrace_AnyTrace(rows, tid) == rows

InTrace(rows, tid) == {q \in rows : q.data.trace_id = tid}

Filtered_MatchingSpansOnly(rows, opts) ==
    {row \in rows :
        /\ opts.ServiceName # <<>> => row.data.service_name = opts.ServiceName
        /\ opts.SpanName # <<>> => row.data.span_name = opts.SpanName
        /\ opts.MinStartTime > 0 => row.data.start_time_unix_nano >= opts.MinStartTime
        /\ opts.MaxStartTime > 0 => row.data.start_time_unix_nano <= opts.MaxStartTime}

Filtered(rows, opts) ==
    {row \in rows :
        LET trace == InTrace(rows, row.data.trace_id) IN
        /\ opts.ServiceName # <<>> =>
               \E q \in trace : q.data.service_name = opts.ServiceName
        /\ opts.SpanName # <<>> =>
               \E q \in trace : q.data.span_name = opts.SpanName
        /\ IF opts.MinStartTime > 0 /\ opts.MaxStartTime > 0
           THEN \E q \in trace :
                    /\ q.data.start_time_unix_nano >= opts.MinStartTime
                    /\ q.data.start_time_unix_nano <= opts.MaxStartTime
           ELSE /\ opts.MinStartTime > 0 =>
                      \E q \in trace : q.data.start_time_unix_nano >= opts.MinStartTime
                /\ opts.MaxStartTime > 0 =>
                      \E q \in trace : q.data.start_time_unix_nano <= opts.MaxStartTime}

\* WINDOW w: PARTITION BY trace_id ORDER BY (the CASE above),
\* start_time_unix_nano. The rows that the sort may put first in a partition
WindowFirst(part) ==
    {f \in part :
        \A q \in part :
            \/ RootRank(f.data) < RootRank(q.data)
            \/ /\ RootRank(f.data) = RootRank(q.data)
               /\ f.data.start_time_unix_nano <= q.data.start_time_unix_nano}

MinOf(S) == CHOOSE x \in S : \A y \in S : x <= y
MaxOf(S) == CHOOSE x \in S : \A y \in S : x >= y

\* one row of the outer SELECT ... GROUP BY trace_id and the TraceSummary
\* the scan loop makes of it; first is the row FIRST_VALUE took
TraceSummary(part, first) ==
    LET startNs == MinOf({q.data.start_time_unix_nano : q \in part})
        endNs == MaxOf({q.data.end_time_unix_nano : q \in part})
    IN  [ TraceID           |-> first.data.trace_id,
          RootServiceName   |-> first.data.service_name,
          RootTraceName     |-> first.data.span_name,
          StartTimeUnixNano |-> startNs,
          DurationMs        |-> IF endNs > startNs THEN (endNs - startNs) \div NsPerMs ELSE 0,
          SpanCount         |-> Cardinality(part),
          StatusCode        |-> MaxOf({q.data.status.code : q \in part}) ]

\* ORDER BY start_ns DESC: the orders the sort may return (equal start_ns
\* in any order)
OrderedDesc(S) ==
    {o \in [1..Cardinality(S) -> S] :
        /\ \A i, j \in DOMAIN o : i < j => o[i] # o[j]
        /\ \A i, j \in DOMAIN o :
               i < j => o[i].StartTimeUnixNano >= o[j].StartTimeUnixNano}

\* if opts.Limit > 0 { query += " LIMIT ?" }
Limited(o, limit) ==
    IF limit > 0 /\ Len(o) > limit THEN SubSeq(o, 1, limit) ELSE o

\* the summaries the query may return for the partitions of kept: one for
\* each row the window's sort may put first
Summaries(kept) ==
    [tid \in {q.data.trace_id : q \in kept} |->
        {TraceSummary(InTrace(kept, tid), first) : first \in WindowFirst(InTrace(kept, tid))}]

\* Store.SearchTraces, all of it under the read lock
SearchTraces(r, options) ==
    /\ CanRLock(mu)
    /\ \E opts \in options :
         \E sums \in {Summaries(Filtered(spans.rows, opts))} :
             \E out \in {pick \in [DOMAIN sums -> UNION {sums[tid] : tid \in DOMAIN sums}] :
                             \A tid \in DOMAIN sums : pick[tid] \in sums[tid]} :
                 \E o \in OrderedDesc({out[tid] : tid \in DOMAIN out}) :
                     rd' = [rd EXCEPT ![r] = [IdleRead EXCEPT !.pc = "done",
                                                               !.kind = "SearchTraces",
                                                               !.m = opts,
                                                               !.s = Limited(o, opts.Limit)]]
    /\ UNCHANGED <<cfg, now, spans, metrics, hist, mu, push, loop, life>>

-----------------------------------------------------------------------------
(* The query parameters of /api/search *)

\* strings.TrimSpace, on strings whose only white space is " "
RECURSIVE TrimLeft(_, _)
TrimLeft(s, c) == IF s # <<>> /\ Head(s) = c THEN TrimLeft(Tail(s), c) ELSE s

RECURSIVE TrimRight(_, _)
TrimRight(s, c) ==
    IF s # <<>> /\ s[Len(s)] = c THEN TrimRight(SubSeq(s, 1, Len(s) - 1), c) ELSE s

TrimSpace(s) == TrimRight(TrimLeft(s, " "), " ")

\* strings.Trim(s, "\"")
TrimQuotes(s) == TrimRight(TrimLeft(s, "\""), "\"")

\* the first index of c in s, 0 if there is none
IndexOf(s, c) ==
    IF \E i \in DOMAIN s : s[i] = c
    THEN CHOOSE i \in DOMAIN s : s[i] = c /\ \A j \in 1..(i - 1) : s[j] # c
    ELSE 0

\* strings.Fields: the maximal runs of characters other than " "
RECURSIVE Fields(_)
Fields(s) ==
    LET t == TrimLeft(s, " ")
        i == IndexOf(t, " ")
    IN  IF t = <<>> THEN <<>>
        ELSE IF i = 0 THEN <<t>>
        ELSE <<SubSeq(t, 1, i - 1)>> \o Fields(SubSeq(t, i + 1, Len(t)))

\* strings.SplitN(f, "=", 2)
SplitKV(f) ==
    LET i == IndexOf(f, "=")
    IN  IF i = 0 THEN <<f>> ELSE <<SubSeq(f, 1, i - 1), SubSeq(f, i + 1, Len(f))>>

ServiceNameKey == <<"s", "e", "r", "v", "i", "c", "e", ".", "n", "a", "m", "e">>
ResourcePrefix == <<"r", "e", "s", "o", "u", "r", "c", "e", ".">>

\* extractServiceFromTags: the value of the first field whose key is
\* service.name or resource.service.name, quotes trimmed
RECURSIVE ServiceOfFields(_)
ServiceOfFields(fields) ==
    IF fields = <<>> THEN <<>>
    ELSE LET kv == SplitKV(Head(fields))
         IN  IF Len(kv) = 2
                /\ TrimSpace(kv[1]) \in {ServiceNameKey, ResourcePrefix \o ServiceNameKey}
             THEN TrimQuotes(TrimSpace(kv[2]))
             ELSE ServiceOfFields(Tail(fields))

extractServiceFromTags(tags) == ServiceOfFields(Fields(tags))

\* traceQLServiceRe, (?:resource\.)?service\.name\s*=\s*"([^"]+)", tried on
\* the text after an occurrence of service.name: the capture, <<>> if the
\* rest of the expression does not match there
CaptureAfterKey(rest) ==
    LET a == TrimLeft(rest, " ")
        b == IF a # <<>> /\ Head(a) = "=" THEN TrimLeft(Tail(a), " ") ELSE <<>>
        c == IF b # <<>> /\ Head(b) = "\"" THEN Tail(b) ELSE <<>>
        i == IndexOf(c, "\"")
    IN  IF i > 1 THEN SubSeq(c, 1, i - 1) ELSE <<>>

\* extractServiceFromTraceQL: FindStringSubmatch takes the leftmost match
extractServiceFromTraceQL(q) ==
    LET n == Len(ServiceNameKey)
        hits == {p \in 1..(Len(q) - n + 1) :
                    /\ SubSeq(q, p, p + n - 1) = ServiceNameKey
                    /\ CaptureAfterKey(SubSeq(q, p + n, Len(q))) # <<>>}
    IN  IF hits = {} THEN <<>>
        ELSE CaptureAfterKey(SubSeq(q, MinOf(hits) + n, Len(q)))

\* '*' and '.*' are Grafana's "All"
Wildcard(v) == IF v \in {<<"*">>, <<".", "*">>} THEN <<>> ELSE v

ResolveService_TagsFirst(service, tags, q) ==
    LET fromTags == IF tags # <<>> THEN extractServiceFromTags(tags) ELSE <<>>
        fromService == Wildcard(TrimSpace(service))
        afterTags == IF fromTags # <<>> THEN fromTags ELSE fromService
    IN  IF afterTags = <<>> /\ q # <<>> THEN extractServiceFromTraceQL(q) ELSE afterTags

\* the service filter handleSearchTraces derives from service, tags and q
ResolveService(service, tags, q) ==
    LET fromService == Wildcard(TrimSpace(service))
        afterTags == IF fromService = <<>> /\ tags # <<>> /\ extractServiceFromTags(tags) # <<>>
                     THEN extractServiceFromTags(tags)
                     ELSE fromService
    IN  IF afterTags = <<>> /\ q # <<>> THEN extractServiceFromTraceQL(q) ELSE afterTags

-----------------------------------------------------------------------------
(* The list endpoints of the HTTP gateway *)

maxQueryLimit == 10000

clampLimit_NoMax(limit, defaultLimit) == IF limit <= 0 THEN defaultLimit ELSE limit

clampLimit(limit, defaultLimit) ==
    IF limit <= 0 THEN defaultLimit
    ELSE IF limit > maxQueryLimit THEN maxQueryLimit
    ELSE limit

\* a numeric query parameter: absent or empty, not a number, or the number
\* strconv.Atoi / strconv.ParseInt returns
NoParam == [given |-> FALSE, num |-> FALSE, n |-> 0]
NotANumber == [given |-> TRUE, num |-> FALSE, n |-> 0]
Number(k) == [given |-> TRUE, num |-> TRUE, n |-> k]

NsPerSecond == 1000000000

\* handleSearchTraces: limit := 20; a positive limit parameter replaces it
SearchLimit(param) ==
    clampLimit(IF param.given /\ param.num /\ param.n > 0 THEN param.n ELSE 20, 20)

\* handleSearchTraces: start and end are epoch seconds
StartNs(param) ==
    IF param.given /\ param.num /\ param.n > 0 THEN param.n * NsPerSecond ELSE 0

ListSpansLimit_IgnoresParam(param) == 1000

\* handleListSpans: Limit: 1000, replaced by the clamped limit parameter when
\* that is a number
ListSpansLimit(param) ==
    IF param.given /\ param.num THEN clampLimit(param.n, 1000) ELSE 1000

\* A stored run: row.n spans, each the only span of a trace of its own, that
\* are equal in all the queries read; the row stands for all of them.
\* A result is a sequence of [item, n]: n consecutive items like item.
RECURSIVE Items(_)
Items(runs) == IF runs = <<>> THEN 0 ELSE Head(runs).n + Items(Tail(runs))

\* LIMIT k on a result
RECURSIVE TakeRuns(_, _)
TakeRuns(runs, k) ==
    IF runs = <<>> \/ k <= 0 THEN <<>>
    ELSE IF Head(runs).n >= k THEN <<[Head(runs) EXCEPT !.n = k]>>
    ELSE <<Head(runs)>> \o TakeRuns(Tail(runs), k - Head(runs).n)

\* if opts.Limit > 0 { query += " LIMIT ?" }
RunsLimited(runs, limit) == IF limit > 0 THEN TakeRuns(runs, limit) ELSE runs

\* QuerySpans: the WHERE clause
SpansMatching(rows, opts) ==
    {row \in rows :
        /\ opts.ServiceName # <<>> => row.data.service_name = opts.ServiceName
        /\ opts.HasStatusCode => row.data.status.code = opts.StatusCode}

\* QuerySpans: ORDER BY start_time_unix_nano DESC
SpansDesc(S) ==
    {o \in [1..Cardinality(S) -> S] :
        /\ \A i, j \in DOMAIN o : i < j => o[i] # o[j]
        /\ \A i, j \in DOMAIN o :
               i < j => o[i].data.start_time_unix_nano >= o[j].data.start_time_unix_nano}

SpanQueryOptions(service, hasStatus, status, limit) ==
    [ServiceName |-> service, HasStatusCode |-> hasStatus, StatusCode |-> status,
     Limit |-> limit]

\* the response a handler wrote, kept for reader 1
Responded(endpoint, request, options, read, items) ==
    [rd EXCEPT ![1] = [IdleRead EXCEPT !.pc = "done", !.kind = endpoint,
                                       !.m = [req |-> request, opts |-> options, read |-> read],
                                       !.s = items]]

\* handleListSpans
handleListSpans(requests) ==
    /\ life.server = "serving"
    /\ \E req \in requests :
         \E opts \in {SpanQueryOptions(req.service, FALSE, 0, ListSpansLimit(req.limit))} :
             \E o \in SpansDesc(SpansMatching(spans.rows, opts)) :
                 \E res \in {RunsLimited([i \in DOMAIN o |-> [item |-> o[i].data, n |-> o[i].n]],
                                         opts.Limit)} :
                     rd' = Responded("handleListSpans", req, opts, res, res)
    /\ UNCHANGED <<cfg, now, spans, metrics, hist, mu, push, loop, life>>

UpperCase == <<"A", "B", "C", "D", "E", "F", "G", "H", "I", "J", "K", "L", "M", "N", "O", "P", "Q", "R", "S", "T", "U", "V", "W", "X", "Y", "Z">>
LowerCase == <<"a", "b", "c", "d", "e", "f", "g", "h", "i", "j", "k", "l", "m", "n", "o", "p", "q", "r", "s", "t", "u", "v", "w", "x", "y", "z">>

\* strings.ToLower, for names of ASCII characters
ToLower(str) ==
    [i \in DOMAIN str |->
        IF \E k \in DOMAIN UpperCase : UpperCase[k] = str[i]
        THEN LowerCase[CHOOSE k \in DOMAIN UpperCase : UpperCase[k] = str[i]]
        ELSE str[i]]

\* strings.Contains
Contains(str, substr) ==
    \E i \in 0..(Len(str) - Len(substr)) : SubSeq(str, i + 1, i + Len(substr)) = substr

ExceptionWord == <<"e", "x", "c", "e", "p", "t", "i", "o", "n">>

IsExceptionEvent_ExactName(event) == event.name = ExceptionWord

\* strings.Contains(strings.ToLower(event.Name), "exception")
IsExceptionEvent(event) == Contains(ToLower(event.name), ExceptionWord)

\* the records handleListExceptions makes of one span with status code 2:
\* one for each exception event, with the time of the event in
\* milliseconds (the start of the span when that is 0), or one fallback
\* record with the start of the span and the status message, when it has one
ExceptionRecords(data) ==
    LET found == SelectSeq(data.events, IsExceptionEvent)
        ofSpan == [trace_id |-> data.trace_id, service_name |-> data.service_name,
                   span_name |-> data.span_name, severity |-> "critical"]
    IN  IF data.status.code # StatusCodeError THEN <<>>
        ELSE IF found = <<>>
        THEN <<[record |-> ofSpan, event |-> 0, message |-> data.status.message,
                timestamp |-> data.start_time_unix_nano \div NsPerMs]>>
        ELSE [i \in DOMAIN found |->
                 [record |-> ofSpan, event |-> found[i].id, message |-> found[i].message,
                  timestamp |-> IF found[i].timestamp \div NsPerMs = 0
                                THEN data.start_time_unix_nano \div NsPerMs
                                ELSE found[i].timestamp \div NsPerMs]]

\* the number of entries handleListExceptions makes of one span
ExceptionEntries(data) == Len(ExceptionRecords(data))

\* handleListExceptions
handleListExceptions ==
    /\ life.server = "serving"
    /\ \E opts \in {SpanQueryOptions(<<>>, TRUE, StatusCodeError, clampLimit(0, 1000))} :
         \E o \in SpansDesc(SpansMatching(spans.rows, opts)) :
             \E res \in {RunsLimited([i \in DOMAIN o |-> [item |-> o[i].data, n |-> o[i].n]],
                                     opts.Limit)} :
                 rd' = Responded("handleListExceptions", NoParam, opts, res,
                                 [i \in DOMAIN res |->
                                     [item |-> res[i].item,
                                      records |-> ExceptionRecords(res[i].item),
                                      n |-> res[i].n * ExceptionEntries(res[i].item)]])
    /\ UNCHANGED <<cfg, now, spans, metrics, hist, mu, push, loop, life>>

\* the number of traces a stored run stands for
TracesOf(rows, tid) == (CHOOSE row \in rows : row.data.trace_id = tid).n

\* e.store.SearchTraces on stored runs, and the response items made of it
SearchResponse(endpoint, req, opts) ==
    \E sums \in {Summaries(Filtered(spans.rows, opts))} :
        \E out \in {pick \in [DOMAIN sums -> UNION {sums[tid] : tid \in DOMAIN sums}] :
                        \A tid \in DOMAIN sums : pick[tid] \in sums[tid]} :
            \E o \in OrderedDesc({out[tid] : tid \in DOMAIN out}) :
                \E res \in {RunsLimited([i \in DOMAIN o |->
                                            [item |-> o[i], n |-> TracesOf(spans.rows, o[i].TraceID)]],
                                        opts.Limit)} :
                    rd' = Responded(endpoint, req, opts, res, res)

\* handleListTraces
handleListTraces ==
    /\ life.server = "serving"
    /\ SearchResponse("handleListTraces", NoParam,
                      [ServiceName |-> <<>>, SpanName |-> <<>>, MinStartTime |-> 0,
                       MaxStartTime |-> 0, Limit |-> clampLimit(0, 1000)])
    /\ UNCHANGED <<cfg, now, spans, metrics, hist, mu, push, loop, life>>

\* handleSearchTraces
handleSearchTraces(requests) ==
    /\ life.server = "serving"
    /\ \E req \in requests :
         SearchResponse("handleSearchTraces", req,
                        [ServiceName  |-> ResolveService(req.service, req.tags, req.q),
                         SpanName     |-> Wildcard(TrimSpace(req.operation)),
                         MinStartTime |-> StartNs(req.start),
                         MaxStartTime |-> StartNs(req.end),
                         Limit        |-> SearchLimit(req.limit)])
    /\ UNCHANGED <<cfg, now, spans, metrics, hist, mu, push, loop, life>>

-----------------------------------------------------------------------------
(* Metric name queries: /metrics/find *)

\* graphiteToLikePattern: % and _ get a backslash, * becomes %, ? becomes _,
\* every other character is copied
RECURSIVE graphiteToLikePattern(_)
graphiteToLikePattern(query) ==
    IF query = <<>> THEN <<>>
    ELSE LET r == Head(query)
             out == CASE r \in {"%", "_"} -> <<"\\", r>>
                      [] r = "*" -> <<"%">>
                      [] r = "?" -> <<"_">>
                      [] OTHER -> <<r>>
         IN  out \o graphiteToLikePattern(Tail(query))

\* SQLite compares the letters of a LIKE pattern without regard to case
\* (PRAGMA case_sensitive_like is off unless set, and New does not set it)
FoldCase(c) == IF c = "X" THEN "x" ELSE c

\* name LIKE pattern ESCAPE '\': % is any run of characters, _ any one
\* character, a backslash makes the next character of the pattern literal,
\* and a pattern that ends in a lone backslash matches nothing
RECURSIVE Like(_, _)
Like(pattern, name) ==
    IF pattern = <<>> THEN name = <<>>
    ELSE CASE Head(pattern) = "%" ->
                 \E k \in 0..Len(name) : Like(Tail(pattern), SubSeq(name, k + 1, Len(name)))
           [] Head(pattern) = "_" ->
                 name # <<>> /\ Like(Tail(pattern), Tail(name))
           [] Head(pattern) = "\\" ->
                 /\ Len(pattern) > 1
                 /\ name # <<>>
                 /\ FoldCase(pattern[2]) = FoldCase(Head(name))
                 /\ Like(SubSeq(pattern, 3, Len(pattern)), Tail(name))
           [] OTHER ->
                 /\ name # <<>>
                 /\ FoldCase(Head(pattern)) = FoldCase(Head(name))
                 /\ Like(Tail(pattern), Tail(name))

\* len(strings.Split(s, "."))
Segments(s) == 1 + Cardinality({i \in DOMAIN s : s[i] = "."})

\* strings.Join(parts[:depth], "."), for a name of at least depth segments
Node(name, depth) ==
    LET dots == {i \in DOMAIN name : name[i] = "."}
        ends == {i \in dots : Cardinality({j \in dots : j <= i}) = depth}
    IN  IF ends = {} THEN name ELSE SubSeq(name, 1, MinOf(ends) - 1)

\* Store.InsertMetric
InsertMetric(names) ==
    /\ mu = FreeMu
    /\ metrics.rows = {}
    /\ \E name \in names :
         metrics' = InsertMetricRow(metrics,
                                    [Name |-> name, Value |-> Float(1, 1), Timestamp |-> now,
                                     Tags |-> <<>>], 0)
    /\ rd' = [r \in DOMAIN rd |-> IdleRead]
    /\ UNCHANGED <<cfg, now, spans, hist, mu, push, loop, life>>

\* the rows a stored metric row stands for: a row with a field n is n points
\* of one metric with one timestamp
Points(row) == IF "n" \in DOMAIN row THEN row.n ELSE 1

\* n calls of InsertMetric with the same name and timestamp
InsertMetricRun(tbl, name, timestamp, n) ==
    [ rows |-> tbl.rows \cup
                 {[id |-> tbl.seq + 1, n |-> n, name |-> name, value |-> Float(1, 1),
                   timestamp |-> timestamp, tags |-> <<>>, batch |-> 0]},
      seq  |-> tbl.seq + n ]

\* QueryMetrics: ORDER BY timestamp (rows of one timestamp in any order)
MetricsAsc(S) ==
    {o \in [1..Cardinality(S) -> S] :
        /\ \A i, j \in DOMAIN o : i < j => o[i] # o[j]
        /\ \A i, j \in DOMAIN o : i < j => o[i].timestamp <= o[j].timestamp}

MetricQueryOptions(name, namePattern, limit) ==
    [Name |-> name, NamePattern |-> namePattern, Limit |-> limit]

\* QueryMetrics: WHERE name LIKE ? ESCAPE '\' or WHERE name = ?, when a name
\* is given; ORDER BY timestamp; LIMIT ? when opts.Limit > 0.  The result is
\* a list of runs of like MetricRecords
QueryMetrics(rows, opts) ==
    {RunsLimited([i \in DOMAIN o |->
                     [item |-> [Name |-> o[i].name, Value |-> o[i].value,
                                Timestamp |-> o[i].timestamp],
                      n |-> Points(o[i])]], opts.Limit) :
        o \in MetricsAsc({x \in rows :
                            \/ opts.Name = <<>>
                            \/ IF opts.NamePattern THEN Like(opts.Name, x.name)
                               ELSE x.name = opts.Name})}

\* the byte of a character, which orders strings in sort.Strings
Byte(c) ==
    CASE c = "%" -> 37 [] c = "(" -> 40 [] c = ")" -> 41 [] c = "*" -> 42 [] c = "," -> 44
      [] c = "." -> 46 [] c = "1" -> 49 [] c = "?" -> 63 [] c = "X" -> 88 [] c = "\\" -> 92
      [] c = "_" -> 95 [] c = "a" -> 97 [] c = "b" -> 98 [] c = "c" -> 99 [] c = "x" -> 120
      [] OTHER -> 127

\* a < b for Go strings
RECURSIVE LessString(_, _)
LessString(a, b) ==
    IF b = <<>> THEN FALSE
    ELSE IF a = <<>> THEN TRUE
    ELSE IF Head(a) # Head(b) THEN Byte(Head(a)) < Byte(Head(b))
    ELSE LessString(Tail(a), Tail(b))

\* the keys of a map, appended to a slice and sorted by sort.Strings
SortStrings(S) ==
    CHOOSE o \in [1..Cardinality(S) -> S] :
        \A i, j \in DOMAIN o : i < j => LessString(o[i], o[j])

findLimit == 2000

\* the nodes findMetricNodes makes of the names QueryMetrics returned: a map
\* keyed by node, so that each node is kept once
Nodes(metricNames, depth) ==
    SortStrings({Node(metricNames[i], depth) :
                    i \in {k \in DOMAIN metricNames : Segments(metricNames[k]) >= depth}})

\* findMetricNodes: QueryMetrics with the LIKE pattern of the query and a
\* limit of 2000 rows, then the distinct nodes at the depth of the query,
\* sorted.  [read: the names of the returned rows, nodes: the result]
FoundNodes(rows, query) ==
    {[read  |-> {res[i].item.Name : i \in DOMAIN res},
      nodes |-> Nodes([i \in DOMAIN res |-> res[i].item.Name], Segments(query))] :
        res \in QueryMetrics(rows, MetricQueryOptions(graphiteToLikePattern(query), TRUE, findLimit))}

findMetricNodes(queries) ==
    /\ CanRLock(mu)
    /\ \E query \in queries :
         \E found \in FoundNodes(metrics.rows, query) :
             rd' = [rd EXCEPT ![1] =
                       [IdleRead EXCEPT !.pc = "done", !.kind = "findMetricNodes",
                                        !.m = [query |-> query, read |-> found.read],
                                        !.s = found.nodes]]
    /\ UNCHANGED <<cfg, now, spans, metrics, hist, mu, push, loop, life>>

-----------------------------------------------------------------------------
(* The Graphite functions aliasByNode and aliasSub *)

\* strings.Split(s, sep) for a separator of one character
RECURSIVE Split(_, _)
Split(s, sep) ==
    LET i == IndexOf(s, sep)
    IN  IF i = 0 THEN <<s>>
        ELSE <<SubSeq(s, 1, i - 1)>> \o Split(SubSeq(s, i + 1, Len(s)), sep)

HasPrefix(s, prefix) == Len(s) >= Len(prefix) /\ SubSeq(s, 1, Len(prefix)) = prefix
HasSuffix(s, suffix) ==
    Len(s) >= Len(suffix) /\ SubSeq(s, Len(s) - Len(suffix) + 1, Len(s)) = suffix

\* strings.TrimSuffix(strings.TrimPrefix(expr, prefix), ")")
Unwrap(expr, prefix) ==
    LET t == IF HasPrefix(expr, prefix) THEN SubSeq(expr, Len(prefix) + 1, Len(expr)) ELSE expr
    IN  IF HasSuffix(t, <<")">>) THEN SubSeq(t, 1, Len(t) - 1) ELSE t

\* strings.Trim(s, "\"'"): quotes of both kinds, in any mix, at both ends
RECURSIVE TrimCutset(_, _)
TrimCutset(s, cutset) ==
    IF s # <<>> /\ Head(s) \in cutset THEN TrimCutset(Tail(s), cutset)
    ELSE IF s # <<>> /\ s[Len(s)] \in cutset THEN TrimCutset(SubSeq(s, 1, Len(s) - 1), cutset)
    ELSE s

QuoteChars == {"\"", "'"}

\* splitTopLevelCSV: cut at the commas that are inside no parentheses; a
\* closing parenthesis that closes nothing is passed over
RECURSIVE CSVFrom(_, _, _, _)
CSVFrom(s, i, depth, start) ==
    IF i > Len(s) THEN <<SubSeq(s, start, Len(s))>>
    ELSE CASE s[i] = "(" -> CSVFrom(s, i + 1, depth + 1, start)
           [] s[i] = ")" -> CSVFrom(s, i + 1, IF depth > 0 THEN depth - 1 ELSE depth, start)
           [] s[i] = "," /\ depth = 0 ->
                  <<SubSeq(s, start, i - 1)>> \o CSVFrom(s, i + 1, depth, i + 1)
           [] OTHER -> CSVFrom(s, i + 1, depth, start)

splitTopLevelCSV_EveryComma(s) == Split(s, ",")

splitTopLevelCSV(s) == CSVFrom(s, 1, 0, 1)

\* strconv.Atoi on decimal strings with an optional sign
DigitValue(c) ==
    CASE c = "0" -> 0 [] c = "1" -> 1 [] c = "2" -> 2 [] c = "3" -> 3 [] c = "4" -> 4
      [] c = "5" -> 5 [] c = "6" -> 6 [] c = "7" -> 7 [] c = "8" -> 8 [] c = "9" -> 9
      [] OTHER -> 0 - 1

RECURSIVE DigitsValue(_, _)
DigitsValue(s, acc) ==
    IF s = <<>> THEN acc ELSE DigitsValue(Tail(s), 10 * acc + DigitValue(Head(s)))

Atoi(a) ==
    LET digits == IF a # <<>> /\ Head(a) \in {"+", "-"} THEN Tail(a) ELSE a
        ok == digits # <<>> /\ \A i \in DOMAIN digits : DigitValue(digits[i]) >= 0
    IN  [ok  |-> ok,
         val |-> IF ~ok THEN 0
                 ELSE IF Head(a) = "-" THEN 0 - DigitsValue(digits, 0)
                 ELSE DigitsValue(digits, 0)]

NotAFunction == [ok |-> FALSE]

AliasByNodePrefix == <<"a", "l", "i", "a", "s", "B", "y", "N", "o", "d", "e", "(">>
AliasSubPrefix == <<"a", "l", "i", "a", "s", "S", "u", "b", "(">>

\* parseAliasByNode: aliasByNode(pattern, i1, i2, ...); blank indices are
\* passed over, an index that is no number makes the whole call no function
parseAliasByNode(expression) ==
    LET expr == TrimSpace(expression)
        args == splitTopLevelCSV(Unwrap(expr, AliasByNodePrefix))
        given == SelectSeq([i \in 1..(Len(args) - 1) |-> TrimSpace(args[i + 1])],
                           LAMBDA a : a # <<>>)
    IN  IF ~HasPrefix(expr, AliasByNodePrefix) \/ ~HasSuffix(expr, <<")">>) THEN NotAFunction
        ELSE IF Len(args) < 2 THEN NotAFunction
        ELSE IF \E i \in DOMAIN given : ~Atoi(given[i]).ok THEN NotAFunction
        ELSE IF given = <<>> THEN NotAFunction
        ELSE [ok |-> TRUE,
              pattern |-> TrimCutset(TrimSpace(args[1]), QuoteChars),
              idxs |-> [i \in DOMAIN given |-> Atoi(given[i]).val]]

aliasByNode_FromOne(metric, idxs) ==
    LET parts == Split(metric, ".")
        at(idx) == IF idx < 0 THEN Len(parts) + idx + 1 ELSE idx
        chosen == SelectSeq(idxs, LAMBDA idx : at(idx) >= 1 /\ at(idx) <= Len(parts))
    IN  IF chosen = <<>> THEN metric
        ELSE Join([i \in DOMAIN chosen |-> parts[at(chosen[i])]], <<".">>)

\* aliasByNode: the segments of the name at the given indices, counted from
\* 0, a negative index from the end; indices out of range are passed over
aliasByNode(metric, idxs) ==
    LET parts == Split(metric, ".")
        at(idx) == IF idx < 0 THEN Len(parts) + idx + 1 ELSE idx + 1
        chosen == SelectSeq(idxs, LAMBDA idx : at(idx) >= 1 /\ at(idx) <= Len(parts))
    IN  IF chosen = <<>> THEN metric
        ELSE Join([i \in DOMAIN chosen |-> parts[at(chosen[i])]], <<".">>)

\* a call of aliasByNode, as the handlers make it for every name they found
aliasByNodeCall(names, indexLists) ==
    /\ \E metric \in names, idxs \in indexLists :
         rd' = Responded("aliasByNode", [metric |-> metric, idxs |-> idxs], <<>>, {},
                         aliasByNode(metric, idxs))
    /\ UNCHANGED <<cfg, now, spans, metrics, hist, mu, push, loop, life>>

\* parseAliasSub: aliasSub(metric, search, replace), exactly three arguments
parseAliasSub(expression) ==
    LET expr == TrimSpace(expression)
        args == splitTopLevelCSV(Unwrap(expr, AliasSubPrefix))
    IN  IF ~HasPrefix(expr, AliasSubPrefix) \/ ~HasSuffix(expr, <<")">>) THEN NotAFunction
        ELSE IF Len(args) # 3 THEN NotAFunction
        ELSE [ok |-> TRUE,
              metric  |-> TrimCutset(TrimSpace(args[1]), QuoteChars),
              search  |-> TrimCutset(TrimSpace(args[2]), QuoteChars),
              replace |-> TrimCutset(TrimSpace(args[3]), QuoteChars)]

aliasSubMaxLen == 512

\* regexp.Compile, for search strings made of letters, digits, ".", ",",
\* spaces, quotes and parentheses without a group that is closed: a
\* parenthesis then makes the expression invalid
Compiles(searchRegex) == \A i \in DOMAIN searchRegex : searchRegex[i] \notin {"(", ")"}

\* the expression matches at the head of s: "." is any character, every
\* other character itself
MatchesAtHead(searchRegex, s) ==
    /\ Len(s) >= Len(searchRegex)
    /\ \A i \in DOMAIN searchRegex : searchRegex[i] = "." \/ searchRegex[i] = s[i]

\* re.ReplaceAllString(metric, replace) for a replacement without "$": the
\* matches are taken leftmost first and do not overlap; the empty
\* expression matches before every character and at the end
RECURSIVE ReplaceAllString(_, _, _)
ReplaceAllString(searchRegex, metric, replace) ==
    IF searchRegex = <<>>
    THEN IF metric = <<>> THEN replace
         ELSE replace \o <<Head(metric)>> \o ReplaceAllString(searchRegex, Tail(metric), replace)
    ELSE IF metric = <<>> THEN <<>>
    ELSE IF MatchesAtHead(searchRegex, metric)
         THEN replace \o ReplaceAllString(searchRegex,
                                          SubSeq(metric, Len(searchRegex) + 1, Len(metric)),
                                          replace)
    ELSE <<Head(metric)>> \o ReplaceAllString(searchRegex, Tail(metric), replace)

\* aliasSub
aliasSub(metric, searchRegex, replace) ==
    IF Len(searchRegex) > aliasSubMaxLen THEN metric
    ELSE IF ~Compiles(searchRegex) THEN metric
    ELSE ReplaceAllString(searchRegex, metric, replace)

\* queryMetricSeries: the points of the metrics the target names, grouped by
\* metric name; a target with * or ? is a pattern, and then metrics with
\* fewer segments than the target are left out.  A series is a function
\* from the metric names to their datapoints (runs of [value, timestamp])
queryMetricSeries(rows, target) ==
    LET namePattern == \E i \in DOMAIN target : target[i] \in {"*", "?"}
        pattern == IF namePattern THEN graphiteToLikePattern(target) ELSE target
        kept(name) == ~(namePattern /\ Segments(name) < Segments(target))
    IN  {[name \in {res[i].item.Name : i \in {k \in DOMAIN res : kept(res[k].item.Name)}} |->
             LET of == SelectSeq(res, LAMBDA run : run.item.Name = name)
             IN  [i \in DOMAIN of |-> [value |-> of[i].item.Value,
                                       timestamp |-> of[i].item.Timestamp, n |-> of[i].n]]] :
            res \in QueryMetrics(rows, MetricQueryOptions(pattern, namePattern, 0))}

\* for name, datapoints := range series: one result for each metric name, in
\* any order, under the name relabel makes of it
Results(series, relabel(_)) ==
    {[i \in DOMAIN o |-> [target |-> relabel(o[i]), datapoints |-> series[o[i]]]] :
        o \in {p \in [1..Cardinality(DOMAIN series) -> DOMAIN series] :
                  \A i, j \in DOMAIN p : i # j => p[i] # p[j]}}

\* handleRenderMetrics, the body of the loop over the targets: aliasSub
\* around aliasByNode, aliasSub alone, aliasByNode alone, or a plain target
RenderTarget(rows, rawTarget) ==
    LET target == TrimSpace(rawTarget)
        sub == parseAliasSub(target)
        nested == IF sub.ok THEN parseAliasByNode(sub.metric) ELSE NotAFunction
        by == parseAliasByNode(target)
    IN  IF target = <<>> THEN {<<>>}
        ELSE IF sub.ok /\ nested.ok
        THEN UNION {Results(series,
                            LAMBDA name : aliasSub(aliasByNode(name, nested.idxs),
                                                   sub.search, sub.replace)) :
                       series \in queryMetricSeries(rows, nested.pattern)}
        ELSE IF sub.ok
        THEN UNION {Results(series, LAMBDA name : aliasSub(name, sub.search, sub.replace)) :
                       series \in queryMetricSeries(rows, sub.metric)}
        ELSE IF by.ok
        THEN UNION {Results(series, LAMBDA name : aliasByNode(name, by.idxs)) :
                       series \in queryMetricSeries(rows, by.pattern)}
        ELSE UNION {Results(series, LAMBDA name : name) :
                       series \in queryMetricSeries(rows, target)}

\* allResults = append(allResults, ...) over the targets of the request
RECURSIVE RenderTargets(_, _)
RenderTargets(rows, targets) ==
    IF targets = <<>> THEN {<<>>}
    ELSE {first \o rest : first \in RenderTarget(rows, Head(targets)),
                          rest \in RenderTargets(rows, Tail(targets))}

\* handleRenderMetrics
handleRenderMetrics(requests) ==
    /\ life.server = "serving"
    /\ \E req \in requests :
         \E allResults \in RenderTargets(metrics.rows, req.targets) :
             rd' = Responded("handleRenderMetrics", req, <<>>, {}, allResults)
    /\ UNCHANGED <<cfg, now, spans, metrics, hist, mu, push, loop, life>>

\* handleFindMetrics, after the query is read: the nodes findMetricNodes
\* returns for the query, or for the pattern inside aliasSub(...) and
\* aliasByNode(...), relabelled by these functions.  [read, names]
FindResults(rows, query) ==
    LET sub == parseAliasSub(query)
        nested == IF sub.ok THEN parseAliasByNode(sub.metric) ELSE NotAFunction
        by == parseAliasByNode(query)
        relabel(name) ==
            IF sub.ok /\ nested.ok
            THEN aliasSub(aliasByNode(name, nested.idxs), sub.search, sub.replace)
            ELSE IF sub.ok THEN aliasSub(name, sub.search, sub.replace)
            ELSE IF by.ok THEN aliasByNode(name, by.idxs)
            ELSE name
        pattern == IF sub.ok /\ nested.ok THEN nested.pattern
                   ELSE IF sub.ok THEN sub.metric
                   ELSE IF by.ok THEN by.pattern
                   ELSE query
    IN  {[read  |-> found.read,
          names |-> [i \in DOMAIN found.nodes |-> relabel(found.nodes[i])]] :
            found \in FoundNodes(rows, pattern)}

\* handleFindMetrics: the parameter query, or q when query is blank; a blank
\* query is answered with an empty list, any other with one entry for each
\* name of FindResults
handleFindMetrics(requests) ==
    /\ life.server = "serving"
    /\ \E req \in requests :
         \E query \in {IF TrimSpace(req.query) # <<>> THEN TrimSpace(req.query)
                       ELSE TrimSpace(req.q)} :
             IF query = <<>>
             THEN rd' = Responded("handleFindMetrics", req, query, {}, <<>>)
             ELSE \E found \in FindResults(metrics.rows, query) :
                      rd' = Responded("handleFindMetrics", req, query, found.read,
                                      [i \in DOMAIN found.names |->
                                          [text |-> found.names[i], id |-> found.names[i]]])
    /\ UNCHANGED <<cfg, now, spans, metrics, hist, mu, push, loop, life>>

-----------------------------------------------------------------------------
(* /api/traces/{id}: stored spans in the Tempo shape *)

\* Store.QueryTraceByID: WHERE trace_id = ? ORDER BY start_time_unix_nano
\* (spans of one start time in any order)
QueryTraceByID(rows, traceID) ==
    {[i \in DOMAIN o |-> o[i].data] :
        o \in {p \in [1..Cardinality({x \in rows : x.data.trace_id = traceID}) ->
                        {x \in rows : x.data.trace_id = traceID}] :
                  /\ \A i, j \in DOMAIN p : i < j => p[i] # p[j]
                  /\ \A i, j \in DOMAIN p :
                         i < j => p[i].data.start_time_unix_nano <= p[j].data.start_time_unix_nano}}

NoStatus == [x \in {} |-> 0]

\* toOTLPSpan of query_tempo.go, the status: 1 is OK, 2 is ERROR, any other
\* code and a status without a code is UNSET; a document without a status
\* object gets an empty status
OTLPStatus(m) ==
    IF "status" \notin DOMAIN m THEN NoStatus
    ELSE [code |-> IF "code" \notin DOMAIN m.status THEN "STATUS_CODE_UNSET"
                   ELSE CASE m.status.code = 1 -> "STATUS_CODE_OK"
                          [] m.status.code = 2 -> "STATUS_CODE_ERROR"
                          [] OTHER -> "STATUS_CODE_UNSET"]

\* toOTLPSpan of exporter.go, the status: 2 is ERROR, 0 is OK, any other code
\* and a status without a code is UNSET
OTLPStatusOld(m) ==
    IF "status" \notin DOMAIN m THEN NoStatus
    ELSE [code |-> IF "code" \notin DOMAIN m.status THEN "STATUS_CODE_UNSET"
                   ELSE IF m.status.code = 2 THEN "STATUS_CODE_ERROR"
                   ELSE IF m.status.code = 0 THEN "STATUS_CODE_OK"
                   ELSE "STATUS_CODE_UNSET"]

\* toOTLPSpan (query_tempo.go)
toOTLPSpan(m) ==
    [traceId |-> m.trace_id, spanId |-> m.span_id, name |-> m.span_name, status |-> OTLPStatus(m)]

\* toOTLPSpan (exporter.go)
toOTLPSpanOld(m) ==
    [traceId |-> m.trace_id, spanId |-> m.span_id, name |-> m.span_name, status |-> OTLPStatusOld(m)]

\* groupSpansAsOTLPResourceSpans: the converted spans of each service, in the
\* order QueryTraceByID returned them
groupSpansAsOTLPResourceSpans(docs, convert(_)) ==
    [service \in {docs[i].service_name : i \in DOMAIN docs} |->
        LET of == SelectSeq(docs, LAMBDA m : m.service_name = service)
        IN  [i \in DOMAIN of |-> convert(of[i])]]

\* handleGetTrace (http_tempo.go)
handleGetTrace(traceIDs) ==
    /\ life.server = "serving"
    /\ \E traceID \in traceIDs :
         \E docs \in QueryTraceByID(spans.rows, traceID) :
             rd' = Responded("handleGetTrace", traceID, <<>>, docs,
                             groupSpansAsOTLPResourceSpans(docs, toOTLPSpan))
    /\ UNCHANGED <<cfg, now, spans, metrics, hist, mu, push, loop, life>>

\* handleGetTrace (exporter.go)
handleGetTraceOld(traceIDs) ==
    /\ life.server = "serving"
    /\ \E traceID \in traceIDs :
         \E docs \in QueryTraceByID(spans.rows, traceID) :
             rd' = Responded("handleGetTraceOld", traceID, <<>>, docs,
                             groupSpansAsOTLPResourceSpans(docs, toOTLPSpanOld))
    /\ UNCHANGED <<cfg, now, spans, metrics, hist, mu, push, loop, life>>

-----------------------------------------------------------------------------
(* The logging middleware of the query server *)

maxLoggedBodyBytes == 65536

\* a request body of n bytes, and the part of a body from one byte to
\* another; the body a handler reads is such a part
Body(n) == [first |-> 1, last |-> n]

BodyLen(body) == body.last - body.first + 1

\* io.ReadAll(io.LimitReader(r.Body, limit)): the bytes read, and what is
\* left in r.Body
ReadLimited(body, limit) ==
    LET n == IF BodyLen(body) < limit THEN BodyLen(body) ELSE limit
    IN  [bytes |-> [first |-> body.first, last |-> body.first + n - 1],
         rest  |-> [first |-> body.first + n, last |-> body.last]]

\* loggingMiddleware: for a POST with the logger at debug level the body is
\* read up to maxLoggedBodyBytes + 1 bytes, r.Body becomes a reader of the
\* bytes read, and the first maxLoggedBodyBytes of them are logged; then the
\* next handler is served.  [seen: r.Body as next reads it, logged, truncated]
loggingMiddleware(requests) ==
    /\ life.server = "serving"
    /\ \E req \in requests :
         \E got \in {ReadLimited(req.body, maxLoggedBodyBytes + 1)} :
             rd' = Responded("loggingMiddleware", req, <<>>, {},
                             IF req.method = "POST" /\ req.debug
                             THEN [seen |-> got.bytes,
                                   logged |-> IF BodyLen(got.bytes) > maxLoggedBodyBytes
                                              THEN ReadLimited(got.bytes, maxLoggedBodyBytes).bytes
                                              ELSE got.bytes,
                                   truncated |-> BodyLen(got.bytes) > maxLoggedBodyBytes]
                             ELSE [seen |-> req.body, logged |-> Body(0), truncated |-> FALSE])
    /\ UNCHANGED <<cfg, now, spans, metrics, hist, mu, push, loop, life>>

-----------------------------------------------------------------------------
(* The exporter's lifecycle: start, the HTTP server goroutine, shutdown *)

Constructed ==
    [ store |-> "nil",       \* e.store: nil, open, closed
      started |-> "no",      \* history: start was not called, returned nil, failed
      ctx |-> FALSE,         \* e.cancelFunc != nil
      cancelled |-> FALSE,   \* e.cleanupCtx is done
      wg |-> {},             \* e.wg: the goroutines it still counts
      server |-> "nil",      \* e.server: nil, new, serving, shutdown
      task |-> "off",        \* the goroutine startQueryServer: off, run, exit
      spc |-> "idle",        \* shutdown: idle, server, srvwait, wait, checkpoint, close, done
      expired |-> FALSE,     \* the deadline of shutdown's context has passed
      log |-> <<>> ]         \* history: the steps shutdown has taken

\* start returns nil: the store is open, both goroutines are launched
Start ==
    /\ life.started = "no"
    /\ life.spc = "idle"
    /\ life' = [life EXCEPT
                  !.started = "ok", !.store = "open", !.ctx = TRUE,
                  !.wg = {"loop"} \cup (IF cfg.QueryPort > 0 THEN {"server"} ELSE {}),
                  !.server = IF cfg.QueryPort > 0 THEN "new" ELSE "nil",
                  !.task = IF cfg.QueryPort > 0 THEN "run" ELSE "off"]
    /\ loop' = [loop EXCEPT !.pc = "select"]
    /\ UNCHANGED <<cfg, now, spans, metrics, hist, mu, push, rd>>

\* start: sqlite.New fails; nothing is launched
StartFails ==
    /\ life.started = "no"
    /\ life.spc = "idle"
    /\ life' = [life EXCEPT !.started = "failed"]
    /\ UNCHANGED <<cfg, now, spans, metrics, hist, mu, push, loop, rd>>

\* startQueryServer: ListenAndServe starts to accept requests
ServerServe ==
    /\ life.task = "run"
    /\ life.server = "new"
    /\ life' = [life EXCEPT !.server = "serving"]
    /\ UNCHANGED <<cfg, now, spans, metrics, hist, mu, push, loop, rd>>

\* startQueryServer: ListenAndServe returns (http.ErrServerClosed once Shutdown
\* was called, or an error of its own); the deferred wg.Done()
ServerExit ==
    /\ life.task = "run"
    /\ life.server \in {"new", "shutdown"}
    /\ life' = [life EXCEPT !.task = "exit", !.wg = @ \ {"server"}]
    /\ UNCHANGED <<cfg, now, spans, metrics, hist, mu, push, loop, rd>>

\* shutdown: if e.cancelFunc != nil { e.cancelFunc() }
ShutCancel ==
    /\ life.spc = "idle"
    /\ life.started /= "no"
    /\ life' = [life EXCEPT !.spc = "server",
                            !.cancelled = life.ctx,
                            !.log = IF life.ctx THEN Append(@, "cancel") ELSE @]
    /\ UNCHANGED <<cfg, now, spans, metrics, hist, mu, push, loop, rd>>

\* shutdown: if e.server != nil { e.server.Shutdown(ctx) }: the listener closes
ShutServer ==
    /\ life.spc = "server"
    /\ life' = IF life.server /= "nil"
               THEN [life EXCEPT !.spc = "srvwait", !.server = "shutdown",
                                 !.log = Append(@, "http")]
               ELSE [life EXCEPT !.spc = "wait"]
    /\ UNCHANGED <<cfg, now, spans, metrics, hist, mu, push, loop, rd>>

\* server.Shutdown returns nil: no handler is running any more
ShutServerIdle ==
    /\ life.spc = "srvwait"
    /\ \A r \in Handlers : rd[r].pc = "idle"
    /\ life' = [life EXCEPT !.spc = "wait"]
    /\ UNCHANGED <<cfg, now, spans, metrics, hist, mu, push, loop, rd>>

\* server.Shutdown returns ctx.Err(): the caller's deadline passed first
ShutServerDeadline ==
    /\ life.spc = "srvwait"
    /\ life' = [life EXCEPT !.spc = "wait", !.expired = TRUE]
    /\ UNCHANGED <<cfg, now, spans, metrics, hist, mu, push, loop, rd>>

WgIsZero_NoWait(wg) == TRUE

\* e.wg.Wait() returns
WgIsZero(wg) == wg = {}

\* shutdown: e.wg.Wait()
ShutWait ==
    /\ life.spc = "wait"
    /\ WgIsZero(life.wg)
    /\ life' = [life EXCEPT !.spc = "checkpoint", !.log = Append(@, "wait")]
    /\ UNCHANGED <<cfg, now, spans, metrics, hist, mu, push, loop, rd>>

\* shutdown: if e.store != nil { e.store.Checkpoint(ctx) ... } else return nil
ShutCheckpoint ==
    /\ life.spc = "checkpoint"
    /\ life' = IF life.store /= "nil"
               THEN [life EXCEPT !.spc = "close", !.log = Append(@, "checkpoint")]
               ELSE [life EXCEPT !.spc = "done"]
    /\ UNCHANGED <<cfg, now, spans, metrics, hist, mu, push, loop, rd>>

\* shutdown: return e.store.Close()
ShutClose ==
    /\ life.spc = "close"
    /\ life' = [life EXCEPT !.spc = "done", !.store = "closed",
                            !.log = Append(@, "close")]
    /\ UNCHANGED <<cfg, now, spans, metrics, hist, mu, push, loop, rd>>

-----------------------------------------------------------------------------
(* Specifications *)

InitWith(configs, tables) ==
    /\ cfg \in configs
    /\ now = 0
    /\ \E t \in tables : spans = t.spans /\ metrics = t.metrics
    /\ hist = NoHistory
    /\ mu = FreeMu
    /\ push = IdlePush
    /\ loop = IdleLoop
    /\ rd = [r \in Handlers |-> IdleRead]
    /\ life = Constructed

NewDatabase == [spans |-> EmptyTable, metrics |-> EmptyTable]

\* a database file left by an earlier run: one span row and one metric row
\* written at second 0 (sqlite.New opens an existing file as it is)
OldDatabase ==
    InsertData(NewDatabase,
               <<spanToJSON(Span(NameA1, <<1, 3, 0, TRUE>>), <<>>)>>,
               <<[Name |-> <<"m">>, Value |-> Float(1, 1), Timestamp |-> 0, Tags |-> <<>>]>>,
               0, 0, TRUE)

\* the batch pushed while other goroutines use the store: one span with
\* status error, which makes one span row and three metric rows
StoreBatches ==
    {<<[resource |-> <<>>, spans |-> <<Span(NameB, <<3, 1, 2, TRUE>>)>>]>>}

\* Spec: the running exporter: ingestion, retention, reads
Init ==
    InitWith({c \in Configs({<<>>}, {0 - 1}, {defaultQueryPort}) : c.StoreTraces /\ c.SendMetrics},
             {NewDatabase})

PushSteps ==
    \/ PushStart(StoreBatches)
    \/ InsertCall \/ InsertExec
    \/ PushLock \/ PushEnter \/ PushBegin \/ PushBeginFails
    \/ PushExecSpan \/ PushExecMetric \/ PushCommit \/ PushFails

CleanupSteps ==
    \/ LoopTick
    \/ CleanupLock \/ CleanupEnter \/ CleanupSpans \/ CleanupSpansFails
    \/ CleanupMetrics \/ CleanupMetricsFails
    \/ LoopAfter

ReadSteps ==
    \E r \in Handlers :
        \/ HandlerStart(r) \/ ReadLock(r) \/ ReadSpans(r) \/ ReadMetrics(r)
        \/ ReadUnlock(r)

Next ==
    \/ Start
    \/ ServerServe
    \/ PushSteps
    \/ CleanupSteps
    \/ ReadSteps

Spec == Init /\ [][Next]_vars

\* SpecPush: one pushTraces call on a fresh store, over every configuration
\* and every small batch
ScopeGroups(S) == [resource : Resources, spans : S]

\* one or two scope groups that hold at most MaxSpans spans together
PushBatches ==
    {<<g>> : g \in ScopeGroups(SeqsUpTo(AllSpans, MaxSpans))}
    \cup UNION {{<<g1, g2>> : g1 \in ScopeGroups([1..n -> AllSpans]),
                               g2 \in ScopeGroups(SeqsUpTo(AllSpans, MaxSpans - n))}
                : n \in 0..MaxSpans}

InitPush == InitWith(Configs(Namespaces, {1}, {0}), {NewDatabase})

NextPush ==
    \/ Start
    \/ PushTraces(PushBatches, 1)

SpecPush == InitPush /\ [][NextPush]_vars

\* SpecRetention: the retention loop at work while the clock advances and
\* batches are pushed
InitRetention ==
    InitWith({c \in Configs({<<>>}, {0 - 1, 0, 1}, {0}) : c.StoreTraces /\ c.SendMetrics},
             {NewDatabase, OldDatabase})

NextRetention ==
    \/ Start
    \/ Tick
    \/ PushTraces(StoreBatches, MaxPushes)
    \/ CleanupSteps

SpecRetention == InitRetention /\ [][NextRetention]_vars

\* SpecFrame: every store operation on a database that already holds rows:
\* one push, the retention loop and the reads of one handler, while the
\* clock advances
InitFrame ==
    InitWith({c \in Configs({<<>>}, {0 - 1, 1}, {defaultQueryPort}) :
                 c.StoreTraces /\ c.SendMetrics},
             {OldDatabase})

NextFrame ==
    \/ Start
    \/ ServerServe
    \/ Tick
    \/ PushTraces(StoreBatches, 1)
    \/ CleanupSteps
    \/ HandlerStart(1) \/ ReadLock(1) \/ ReadSpans(1) \/ ReadMetrics(1) \/ ReadUnlock(1)

SpecFrame == InitFrame /\ [][NextFrame]_vars

\* SpecLife: start, the two goroutines, the handlers' reads, shutdown
InitLife ==
    InitWith({c \in Configs({<<>>}, {0 - 1}, {0, defaultQueryPort}) :
                 c.StoreTraces /\ c.SendMetrics},
             {OldDatabase})

ShutdownSteps ==
    \/ ShutCancel
    \/ ShutServer \/ ShutServerIdle \/ ShutServerDeadline
    \/ ShutWait
    \/ ShutCheckpoint
    \/ ShutClose

NextLife ==
    \/ Start \/ StartFails
    \/ ServerServe \/ ServerExit
    \/ LoopCancelled
    \/ CleanupSteps
    \/ ReadSteps
    \/ ShutdownSteps

SpecLife == InitLife /\ [][NextLife]_vars

\* SpecLifeFair: SpecLife where every goroutine that can take a step takes
\* one in the end (the Go scheduler runs every runnable goroutine, an SQL
\* statement ends, ListenAndServe returns once Shutdown closed the listener)
FairLife ==
    /\ WF_vars(LoopTick \/ LoopCancelled)
    /\ WF_vars(CleanupLock)
    /\ WF_vars(CleanupEnter)
    /\ WF_vars(CleanupSpans \/ CleanupSpansFails)
    /\ WF_vars(CleanupMetrics \/ CleanupMetricsFails)
    /\ WF_vars(LoopAfter)
    /\ \A r \in Handlers :
         WF_vars(ReadLock(r) \/ ReadSpans(r) \/ ReadMetrics(r) \/ ReadUnlock(r))
    /\ WF_vars(ServerExit)
    /\ WF_vars(ShutServer \/ ShutServerIdle \/ ShutServerDeadline \/ ShutWait
                \/ ShutCheckpoint \/ ShutClose)

SpecLifeFair == InitLife /\ [][NextLife]_vars /\ FairLife

\* SpecPool: more concurrent trace lookups than the pool has connections,
\* next to the retention loop
Readers == 1..NumReaders

InitPool ==
    /\ cfg \in {c \in Configs({<<>>}, {0 - 1}, {defaultQueryPort}) : c.StoreTraces /\ c.SendMetrics}
    /\ now = 0
    /\ spans = OldDatabase.spans /\ metrics = OldDatabase.metrics
    /\ hist = NoHistory
    /\ mu = FreeMu
    /\ push = IdlePush
    /\ loop = IdleLoop
    /\ rd = [r \in Readers |-> IdleRead]
    /\ life = Constructed

LookupSteps ==
    \E r \in Readers :
        \/ GetTraceStart(r) \/ ReadLock(r) \/ QueryOpen(r) \/ QueryClose(r)
        \/ ReadUnlock(r)

NextPool ==
    \/ Start
    \/ ServerServe
    \/ CleanupSteps
    \/ LookupSteps

SpecPool == InitPool /\ [][NextPool]_vars

\* SpecSearch: SearchTraces on every small table of spans of two traces
TraceIDs == {"t1", "t2"}

\* <<parent_span_id, service_name, span_name, start, end, status code>>:
\* a root that starts late, a child that starts first and failed, a root
\* with the all-zero parent id, a child that ends before it starts
SearchShapes ==
    { <<"", <<"a">>, <<"x">>, 2000000, 3500000, 0>>,
      <<"p", <<"b">>, <<"y">>, 1000000, 2000000, 2>>,
      <<"0000000000000000", <<"b">>, <<"z">>, 2000000, 2000001, 1>>,
      <<"p", <<"a">>, <<"y">>, 3000000, 1000000, 0>> }

SpanDocs ==
    {[ trace_id             |-> tid,
       parent_span_id       |-> sh[1],
       service_name         |-> sh[2],
       span_name            |-> sh[3],
       start_time_unix_nano |-> sh[4],
       end_time_unix_nano   |-> sh[5],
       status               |-> [code |-> sh[6]] ] : tid \in TraceIDs, sh \in SearchShapes}

\* the name filters in every combination, the time filters in every
\* combination, each with no limit and with a limit of 1
SearchOptions ==
    [ ServiceName  : {<<>>, <<"a">>},
      SpanName     : {<<>>, <<"y">>},
      MinStartTime : {0},
      MaxStartTime : {0},
      Limit        : {0, 1} ]
    \cup
    [ ServiceName  : {<<>>},
      SpanName     : {<<>>},
      MinStartTime : {0, 2000000},
      MaxStartTime : {0, 2000000},
      Limit        : {0, 1} ]

InitSearch ==
    InitWith({c \in Configs({<<>>}, {1}, {0}) : c.StoreTraces /\ c.SendMetrics}, {NewDatabase})

NextSearch ==
    \/ InsertSpan(SpanDocs, MaxStored)
    \/ SearchTraces(1, SearchOptions)

SpecSearch == InitSearch /\ [][NextSearch]_vars

\* an event of a stored span: its place among the events of the span, its
\* name, its time and its attribute exception.message
Event(id, name, timestamp) ==
    [id |-> id, name |-> name, timestamp |-> timestamp, message |-> <<"m", id>>]

\* SpecList: the list endpoints on tables that hold more spans than the
\* limits allow to return
\* <<service_name, status code, event names>>
RunKinds ==
    { <<<<"a">>, 0, <<>>>>,
      <<<<"b">>, 2, <<>>>>,
      <<<<"b">>, 2, [j \in 1..11 |-> Event(j, ExceptionWord, NsPerSecond)]>>,
      <<<<"a">>, 2, <<Event(1, <<"l", "o", "g">>, NsPerSecond),
                      Event(2, <<"E", "x", "c", "e", "p", "t", "i", "o", "n">>, NsPerSecond)>>>> }

RunSizes == {1, 10001}

\* the document of the spans of the i-th run
RunDoc(i, kind) ==
    [ trace_id             |-> <<"t", i>>,
      parent_span_id       |-> "",
      service_name         |-> kind[1],
      span_name            |-> <<"x">>,
      start_time_unix_nano |-> NsPerSecond + i * NsPerMs,
      end_time_unix_nano   |-> NsPerSecond + i * NsPerMs + NsPerMs,
      status               |-> [code |-> kind[2], message |-> <<"s", i>>],
      events               |-> kind[3] ]

\* n calls of InsertSpan with documents like doc
InsertRun(tbl, doc, n) ==
    [ rows |-> tbl.rows \cup
                 {[id |-> tbl.seq + 1, n |-> n, data |-> doc, created_at |-> 0, batch |-> 0]},
      seq  |-> tbl.seq + n ]

RECURSIVE TableOf(_, _)
TableOf(runs, k) ==
    IF k = 0 THEN EmptyTable
    ELSE InsertRun(TableOf(runs, k - 1), RunDoc(k, runs[k][1]), runs[k][2])

ListTables ==
    UNION {{TableOf(runs, k) : runs \in [1..k -> RunKinds \X RunSizes]} : k \in 0..MaxRuns}

LimitParams == {NoParam, NotANumber} \cup {Number(k) : k \in {0 - 1, 0, 1, 1001, 10000, 10001}}

ListRequests ==
    [ service : {<<>>, <<"a">>}, operation : {<<>>}, tags : {<<>>}, q : {<<>>},
      start : {NoParam}, end : {NoParam}, limit : LimitParams ]

InitServing(tables) ==
    /\ cfg \in {c \in Configs({<<>>}, {0 - 1}, {defaultQueryPort}) : c.StoreTraces /\ c.SendMetrics}
    /\ now = 0
    /\ spans \in tables
    /\ metrics = EmptyTable
    /\ hist = NoHistory
    /\ mu = FreeMu
    /\ push = IdlePush
    /\ loop = IdleLoop
    /\ rd = [r \in Handlers |-> IdleRead]
    /\ life = Constructed

InitList == InitServing(ListTables)

NextList ==
    \/ Start
    \/ ServerServe
    \/ handleSearchTraces(ListRequests)
    \/ handleListTraces
    \/ handleListSpans(ListRequests)
    \/ handleListExceptions

SpecList == InitList /\ [][NextList]_vars

\* SpecParams: /api/search with every combination of service, operation,
\* tags and q parameters
TagsPlain == <<"s", "e", "r", "v", "i", "c", "e", ".", "n", "a", "m", "e", "=", "b">>
TagsQuoted == <<"k", "=", "v", " ", "r", "e", "s", "o", "u", "r", "c", "e", ".", "s", "e", "r", "v", "i", "c", "e", ".", "n", "a", "m", "e", "=", "\"", "b", "\"">>
TagsEmptyValue == <<"s", "e", "r", "v", "i", "c", "e", ".", "n", "a", "m", "e", "=", "\"", "\"">>
TagsOtherKey == <<"n", "a", "m", "e", "=", "b">>

QueryResource == <<"{", "r", "e", "s", "o", "u", "r", "c", "e", ".", "s", "e", "r", "v", "i", "c", "e", ".", "n", "a", "m", "e", "=", "\"", "a", "\"", "}">>
QuerySpaced == <<"{", " ", "s", "e", "r", "v", "i", "c", "e", ".", "n", "a", "m", "e", " ", "=", " ", "\"", "b", "\"", " ", "}">>
QueryOtherKey == <<"{", "n", "a", "m", "e", "=", "\"", "a", "\"", "}">>

ParamRequests ==
    [ service : {<<>>, <<" ">>, <<"*">>, <<".", "*">>, <<"a">>},
      operation : {<<"*">>, <<".", "*">>, <<"x">>},
      tags : {<<>>, TagsPlain, TagsQuoted, TagsEmptyValue, TagsOtherKey},
      q : {<<>>, QueryResource, QuerySpaced, QueryOtherKey},
      start : {NoParam}, end : {NoParam}, limit : {NoParam} ]
    \cup
    [ service : {<<>>}, operation : {<<>>}, tags : {<<>>}, q : {<<>>},
      start : {NoParam, NotANumber, Number(0), Number(2)},
      end : {NoParam, Number(1)}, limit : {NoParam} ]

\* two single spans, of the services a and b in every combination
ParamTables ==
    {TableOf(runs, 2) : runs \in [1..2 -> {k \in RunKinds : k[3] = <<>>} \X {1}]}

InitParams == InitServing(ParamTables)

NextParams ==
    \/ Start
    \/ ServerServe
    \/ handleSearchTraces(ParamRequests)

SpecParams == InitParams /\ [][NextParams]_vars

\* SpecGlob: one stored metric name and one query, every short name and
\* query over the characters that matter, and the examples a_b.c, aXb.c,
\* a_b.*, a?b.* and aXb.*
NameChars == {"a", "x", "X", "_", "%", ".", "\\"}
QueryChars == {"a", "x", "_", "%", "\\", "*", "?"}

MetricNames ==
    (SeqsUpTo(NameChars, MaxChars) \ {<<>>})
    \cup {<<"a", "_", "b", ".", "c">>, <<"a", "X", "b", ".", "c">>}

MetricQueries ==
    (SeqsUpTo(QueryChars, MaxChars) \ {<<>>})
    \cup {<<"a", "_", "b", ".", "*">>, <<"a", "?", "b", ".", "*">>, <<"a", "X", "b", ".", "*">>}

InitGlob == InitWith({c \in Configs({<<>>}, {1}, {0}) : c.StoreTraces /\ c.SendMetrics}, {NewDatabase})

NextGlob ==
    \/ InsertMetric(MetricNames)
    \/ findMetricNodes(MetricQueries)

SpecGlob == InitGlob /\ [][NextGlob]_vars

\* SpecFind: /metrics/find on tables of up to MaxRuns metrics, each with
\* one point or with as many points as findMetricNodes reads at most; the
\* points of a metric are older than those of the metrics after it
FindNames == {<<"a">>, <<"a", ".", "b">>, <<"a", ".", "c">>, <<"b", ".", "c">>}
FindSizes == {1, findLimit}

RECURSIVE MetricTableOf(_, _)
MetricTableOf(runs, k) ==
    IF k = 0 THEN EmptyTable
    ELSE InsertMetricRun(MetricTableOf(runs, k - 1), runs[k][1], k, runs[k][2])

FindTables ==
    UNION {{MetricTableOf(runs, k) : runs \in [1..k -> FindNames \X FindSizes]} : k \in 0..MaxRuns}

FindQueries ==
    {<<>>, <<" ">>, <<"*">>, <<"a">>, <<"a", ".", "*">>, <<" ", "a", ".", "*">>, <<"*", ".", "c">>,
     <<"a", ".", "b">>, <<"?", ".", "?">>, <<"*", ".", "*", ".", "*">>,
     <<"a", "l", "i", "a", "s", "B", "y", "N", "o", "d", "e", "(", "a", ".", "*", ",", "1", ")">>,
     <<"a", "l", "i", "a", "s", "S", "u", "b", "(", "*", ",", "a", ",", "b", ")">>}

FindRequests == [query : FindQueries, q : {<<>>, <<"b", ".", "*">>}]

InitFind ==
    /\ cfg \in {c \in Configs({<<>>}, {0 - 1}, {defaultQueryPort}) : c.StoreTraces /\ c.SendMetrics}
    /\ now = 0
    /\ spans = EmptyTable
    /\ metrics \in FindTables
    /\ hist = NoHistory
    /\ mu = FreeMu
    /\ push = IdlePush
    /\ loop = IdleLoop
    /\ rd = [r \in Handlers |-> IdleRead]
    /\ life = Constructed

NextFind ==
    \/ Start
    \/ ServerServe
    \/ handleFindMetrics(FindRequests)

SpecFind == InitFind /\ [][NextFind]_vars

\* SpecRender: one /render request on a table of up to MaxRuns points, for
\* plain targets X and for the targets aliasSub(aliasByNode(X,1), "a", "b")
\* a client makes of a pattern X and two strings a and b
RenderNames == {<<"a", ".", "b">>, <<"a", ".", "a">>, <<"b", ".", "a">>, <<"a", ",", "b">>}

RenderTables ==
    UNION {{MetricTableOf(runs, k) : runs \in [1..k -> RenderNames \X {1}]} : k \in 0..MaxRuns}

RenderPatterns ==
    {<<>>, <<"*">>, <<" ", "a", ".", "*">>, <<"b", ".", "a">>, <<"a", ",", "*">>, <<"'", "a", ".", "*">>}

SearchStrings ==
    SeqsUpTo({"a", ".", ","}, MaxChars) \cup {<<"(">>, <<")">>, <<"\"">>, <<" ", "a">>, <<"a", "'">>}

ReplaceStrings == {<<>>, <<"b">>, <<",">>, <<"b", "'">>}

\* the target aliasSub(aliasByNode(X,1), "a", "b")
Composed(X, a, b) ==
    AliasSubPrefix \o AliasByNodePrefix \o X \o <<",", "1", ")", ",", " ", "\"">> \o a
    \o <<"\"", ",", " ", "\"">> \o b \o <<"\"", ")">>

RenderRequests ==
    {[targets |-> <<Composed(X, a, b)>>, X |-> X, a |-> a, b |-> b, composed |-> TRUE] :
        X \in RenderPatterns, a \in SearchStrings, b \in ReplaceStrings}
    \cup {[targets |-> <<X>>, X |-> X, a |-> <<>>, b |-> <<>>, composed |-> FALSE] :
            X \in RenderPatterns}
    \cup {[targets |-> t, X |-> <<>>, a |-> <<>>, b |-> <<>>, composed |-> FALSE] :
            t \in {<<>>, <<<<"*">>, <<"a", ".", "b">>>>,
                   <<<<"a", "l", "i", "a", "s", "B", "y", "N", "o", "d", "e", "(", "a", ".", "*", ",", "-", "1", ")">>>>,
                   <<<<"a", "l", "i", "a", "s", "S", "u", "b", "(", "a", ".", "*", ",", "a", ",", "b", ")">>>>}}

InitRender ==
    /\ cfg \in {c \in Configs({<<>>}, {0 - 1}, {defaultQueryPort}) : c.StoreTraces /\ c.SendMetrics}
    /\ now = 0
    /\ spans = EmptyTable
    /\ metrics \in RenderTables
    /\ hist = NoHistory
    /\ mu = FreeMu
    /\ push = IdlePush
    /\ loop = IdleLoop
    /\ rd = [r \in Handlers |-> IdleRead]
    /\ life = Constructed

NextRender ==
    \/ Start
    \/ ServerServe
    \/ rd[1].pc = "idle" /\ handleRenderMetrics(RenderRequests)

SpecRender == InitRender /\ [][NextRender]_vars

\* SpecAlias: one call of aliasByNode on names of one to three segments, an empty
\* segment among them, with up to MaxIndices indices in and out of range
AliasNames ==
    {<<"a">>, <<"a", ".", "b">>, <<"a", ".", "b", ".", "c">>, <<"a", ".", ".", "c">>,
     <<"a", "b", ".", "c">>, <<>>}

AliasIndices == (0 - 4)..4

InitAlias == InitWith({c \in Configs({<<>>}, {1}, {0}) : c.StoreTraces /\ c.SendMetrics}, {NewDatabase})

NextAlias == rd[1].pc = "idle" /\ aliasByNodeCall(AliasNames, SeqsUpTo(AliasIndices, MaxIndices))

SpecAlias == InitAlias /\ [][NextAlias]_vars

\* SpecTempo: /api/traces/{id} on traces of up to MaxRuns spans with the
\* status codes 0 to 3, and with a status object that holds no code
TempoStatuses == {[code |-> 0], [code |-> 1], [code |-> 2], [code |-> 3], [message |-> "m"]}

TempoDoc(i, service, status) ==
    [ trace_id             |-> <<"t">>,
      span_id              |-> i,
      parent_span_id       |-> "",
      service_name         |-> service,
      span_name            |-> <<"x">>,
      start_time_unix_nano |-> NsPerSecond,
      end_time_unix_nano   |-> NsPerSecond + NsPerMs,
      status               |-> status ]

RECURSIVE TempoTableOf(_, _)
TempoTableOf(docs, k) ==
    IF k = 0 THEN EmptyTable
    ELSE InsertRun(TempoTableOf(docs, k - 1), TempoDoc(k, docs[k][1], docs[k][2]), 1)

TempoTables ==
    UNION {{TempoTableOf(docs, k) : docs \in [1..k -> {<<"a">>, <<"b">>} \X TempoStatuses]} :
              k \in 0..MaxRuns}

InitTempo == InitServing(TempoTables)

NextTempo ==
    \/ Start
    \/ ServerServe
    \/ handleGetTrace({<<"t">>, <<"u">>})
    \/ handleGetTraceOld({<<"t">>, <<"u">>})

SpecTempo == InitTempo /\ [][NextTempo]_vars

\* SpecExceptions: /api/exceptions on tables of up to MaxRuns spans with and
\* without exception events
\* <<service_name, status code, events>>
ExceptionKinds ==
    { <<<<"a">>, 2, <<>>>>,
      <<<<"a">>, 2, <<Event(1, <<"l", "o", "g">>, NsPerSecond)>>>>,
      <<<<"a">>, 2, <<Event(1, ExceptionWord, 0)>>>>,
      <<<<"b">>, 2, <<Event(1, <<"E", "x", "c", "e", "p", "t", "i", "o", "n">>, NsPerSecond + NsPerMs),
                      Event(2, <<"l", "o", "g">>, NsPerSecond),
                      Event(3, <<"a", "p", "p", ".", "E", "X", "C", "E", "P", "T", "I", "O", "N", ".", "r", "a", "i", "s", "e", "d">>, NsPerSecond)>>>>,
      <<<<"b">>, 2, <<Event(1, <<"e", "x", "c", "e", "p", "t">>, NsPerSecond)>>>>,
      <<<<"b">>, 0, <<Event(1, ExceptionWord, NsPerSecond)>>>> }

ExceptionTables ==
    UNION {{TableOf(runs, k) : runs \in [1..k -> ExceptionKinds \X {1}]} : k \in 0..MaxRuns}

InitExceptions == InitServing(ExceptionTables)

NextExceptions ==
    \/ Start
    \/ ServerServe
    \/ handleListExceptions

SpecExceptions == InitExceptions /\ [][NextExceptions]_vars

\* SpecLog: requests with bodies shorter and longer than the part of a body
\* that is logged, with the logger at debug level and above it
BodyLengths ==
    {0, 1, 2, 3, 4, maxLoggedBodyBytes - 1, maxLoggedBodyBytes, maxLoggedBodyBytes + 1,
     maxLoggedBodyBytes + 2, 2 * maxLoggedBodyBytes}

LogRequests ==
    [ method : {"GET", "POST", "PUT"}, path : {"/render", "/metrics/find"},
      body : {Body(n) : n \in BodyLengths}, debug : BOOLEAN ]

InitLog == InitServing({EmptyTable})

NextLog ==
    \/ Start
    \/ ServerServe
    \/ loggingMiddleware(LogRequests)

SpecLog == InitLog /\ [][NextLog]_vars

-----------------------------------------------------------------------------
(* Properties of Spec: the store under concurrent use *)

\* the client calls made so far
Calls == 1..Len(hist.full)

\* rows of call b that table tbl holds
RowsOf(tbl, b) == Cardinality({r \in tbl.rows : r.batch = b})

\* rows of call b that Cleanup has deleted from table t
PurgedOf(t, b) == Cardinality({x \in hist.purged : x[1] = t /\ x[2].batch = b})

\* of call b, ns span rows and nm metric rows: nothing of it, or all of it
NoneOrAll(ns, nm, b) ==
    \/ ns = 0 /\ nm = 0
    \/ ns = hist.full[b].ns /\ nm = hist.full[b].nm

\* what handler r's finished read saw of call b (rows that retention had
\* deleted before the read count as seen: they were written)
SawSpans(r, b) == rd[r].s[b][1] + rd[r].s[b][2]
SawMetrics(r, b) == rd[r].m[b][1] + rd[r].m[b][2]

\* C1: the rows of a client call (a pushTraces batch: its span rows and its
\* derived metric rows) are in the store all together or not at all, at
\* every moment; all of them once the call has returned nil and none of them
\* once it has returned an error; and every store read, whenever it runs,
\* sees of each call either nothing or everything in the tables it reads.
C1_PushAtomic ==
    /\ \A b \in Calls :
         NoneOrAll(RowsOf(spans, b) + PurgedOf("spans", b),
                   RowsOf(metrics, b) + PurgedOf("metrics", b), b)
    /\ push.pc = "done" /\ push.n \in Calls =>
         IF push.err
         THEN RowsOf(spans, push.n) + PurgedOf("spans", push.n) = 0
              /\ RowsOf(metrics, push.n) + PurgedOf("metrics", push.n) = 0
         ELSE RowsOf(spans, push.n) + PurgedOf("spans", push.n) = hist.full[push.n].ns
              /\ RowsOf(metrics, push.n) + PurgedOf("metrics", push.n) = hist.full[push.n].nm
    /\ \A r \in Handlers : \A b \in Calls :
         rd[r].pc = "runlock" =>
           CASE rd[r].kind = "QuerySpans"   -> SawSpans(r, b) \in {0, hist.full[b].ns}
             [] rd[r].kind = "QueryMetrics" -> SawMetrics(r, b) \in {0, hist.full[b].nm}
             [] OTHER                       -> NoneOrAll(SawSpans(r, b), SawMetrics(r, b), b)

\* a Stats read that ran against a committed push of one span row and three
\* metric rows and saw all four
C1_Witness ==
    \E r \in Handlers :
        /\ rd[r].pc = "runlock" /\ rd[r].kind = "Stats"
        /\ push.op = "pushTraces" /\ push.pc = "done" /\ ~push.err
        /\ hist.full[push.n] = [ns |-> 1, nm |-> 3]
        /\ rd[r].s[push.n] = <<1, 0>> /\ rd[r].m[push.n] = <<3, 0>>

\* the rows of table now that were not in table before, and the rows of
\* before that are gone without Cleanup having deleted them
SameButPurged(t, before, after) ==
    /\ after.seq = before.seq
    /\ after.rows \subseteq before.rows
    /\ \A r \in before.rows \ after.rows : <<t, r>> \in hist.purged

\* C2: a pushTraces call whose store write failed (at BeginTx, a prepare, an
\* insert or the commit) has returned a non-nil error, and the span and
\* metric tables are what they were when the call was made, rows that the
\* retention loop deleted meanwhile apart.
C2_FailedPushChangesNothing ==
    push.op = "pushTraces" /\ push.pc = "done" /\ push.err =>
        /\ SameButPurged("spans", push.before.spans, spans)
        /\ SameButPurged("metrics", push.before.metrics, metrics)

\* a push that failed after its transaction had inserted the span row and a
\* metric row
C2_Witness ==
    /\ push.op = "pushTraces" /\ push.pc = "done" /\ push.err
    /\ push.tx.spans.rows /= push.before.spans.rows
    /\ push.tx.metrics.rows /= push.before.metrics.rows

\* who is inside the store: past its Lock / RLock, before its Unlock / RUnlock
PushInside == push.pc \in {"begin", "spans", "metrics", "commit", "exec"}
LoopInside == loop.pc \in {"spans", "metrics"}
ReadInside(r) == rd[r].pc \in {"spans", "metrics", "runlock"}

\* C3: at most one store write (InsertSpan, InsertMetric, InsertData, Cleanup)
\* is inside the store at any moment, and while one is inside no read is.
C3_LockDiscipline ==
    /\ ~(PushInside /\ LoopInside)
    /\ PushInside \/ LoopInside => \A r \in Handlers : ~ReadInside(r)

\* Cleanup is inside the store while the writing client has announced itself
\* and waits, and a read waits at RLock
C3_Witness ==
    /\ LoopInside
    /\ push.pc = "lock"
    /\ \E r \in Handlers : rd[r].pc = "rlock"

-----------------------------------------------------------------------------
(* Properties of SpecLife and SpecLifeFair: shutdown and the retention loop *)

ShutdownOrder == <<"cancel", "http", "wait", "checkpoint", "close">>

\* the place of a shutdown step in ShutdownOrder
Rank(step) == CHOOSE i \in DOMAIN ShutdownOrder : ShutdownOrder[i] = step

\* C4: shutdown takes its steps in the order cancel the retention loop's
\* context, Shutdown of the HTTP server, wg.Wait, Checkpoint, Close; after a
\* successful start it takes all of them (the HTTP step when a server was
\* configured); and the store is checkpointed or closed only when the
\* retention goroutine and the HTTP server goroutine have both returned.
C4_ShutdownOrder ==
    /\ \A i, j \in DOMAIN life.log :
         i < j => Rank(life.log[i]) < Rank(life.log[j])
    /\ life.started = "ok" /\ life.spc = "done" =>
         life.log = IF cfg.QueryPort > 0 THEN ShutdownOrder
                    ELSE <<"cancel", "wait", "checkpoint", "close">>
    /\ (\E i \in DOMAIN life.log : life.log[i] \in {"checkpoint", "close"}) =>
         loop.pc = "exit" /\ life.task /= "run"

\* a shutdown that ran to its end with a server, whose Shutdown hit the deadline
C4_Witness ==
    /\ life.spc = "done"
    /\ life.log = ShutdownOrder
    /\ life.expired

\* C5: runCleanup returns only when its context was cancelled; when Cleanup
\* fails while the context is not cancelled, the loop logs the failure and
\* goes back to wait for the next tick; and once the context is cancelled the
\* loop returns in the end, so that shutdown's wg.Wait returns.
C5_LoopEndsOnlyByShutdown ==
    /\ [](loop.pc = "exit" => life.cancelled)
    /\ [][loop.pc = "returned" /\ loop.err /\ ~life.cancelled /\ loop'.pc /= "returned"
            => loop'.pc = "select" /\ loop'.logged]_vars
    /\ [](loop.pc = "select" => ENABLED LoopTick)
    /\ (life.cancelled ~> loop.pc = "exit")
    /\ (life.spc = "wait" ~> life.spc = "checkpoint")

\* the loop logged a failed Cleanup, went on, and returned after the
\* cancellation; shutdown is past its wait
C5_Witness ==
    /\ loop.pc = "exit"
    /\ loop.logged
    /\ life.cancelled
    /\ life.spc = "checkpoint"

-----------------------------------------------------------------------------
(* Properties of SpecRetention: Store.Cleanup *)

\* the step in which Cleanup returns after its second DELETE
SecondDeleteReturns == loop.pc = "metrics" /\ loop'.pc = "returned"

\* the rows of a table at or after the cutoff
KeptSpans(tbl, cutoff) == [tbl EXCEPT !.rows = {r \in @ : ~(r.created_at < cutoff)}]
KeptMetrics(tbl, cutoff) == [tbl EXCEPT !.rows = {r \in @ : ~(r.timestamp < cutoff)}]

\* C6: when Cleanup returns without error, with cutoff = (the clock when it
\* entered) - retention, the spans table is the one it found less the rows
\* with created_at < cutoff, the metrics table the one it found less the rows
\* with timestamp < cutoff, and the returned number is the number of rows gone.
C6_CleanupDeletesOld ==
    [][SecondDeleteReturns /\ ~loop'.err =>
         LET cutoff == loop.at - cfg.Retention
         IN  /\ spans' = KeptSpans(loop.snap.spans, cutoff)
             /\ metrics' = KeptMetrics(loop.snap.metrics, cutoff)
             /\ loop'.deleted = Cardinality(loop.snap.spans.rows \ spans'.rows)
                                + Cardinality(loop.snap.metrics.rows \ metrics'.rows)]_vars

\* a Cleanup that deleted rows and kept a row that was in the table
C6_Witness ==
    /\ loop.pc = "returned" /\ ~loop.err
    /\ loop.deleted > 0
    /\ \E r \in spans.rows : r \in loop.snap.spans.rows

\* C7 as the claim states it: when the second DELETE fails, the first is not
\* applied either.
C7_AsClaimed ==
    [][SecondDeleteReturns /\ loop'.err => spans' = loop.snap.spans]_vars

\* C7: the two DELETEs of one Cleanup run under one hold of the write lock,
\* each committed on its own: when the second fails, the spans table stays
\* less its old rows, the metrics table stays as found, and Cleanup returns
\* the number of span rows deleted together with the error.
C7_SpansDeletionStays ==
    /\ [](loop.pc = "metrics" =>
            /\ WriterInside(mu) /\ mu.w = "loop"
            /\ spans = KeptSpans(loop.snap.spans, loop.cutoff)
            /\ metrics = loop.snap.metrics)
    /\ [][SecondDeleteReturns /\ loop'.err =>
            /\ spans' = KeptSpans(loop.snap.spans, loop.cutoff)
            /\ metrics' = loop.snap.metrics
            /\ loop'.deleted = Cardinality(loop.snap.spans.rows \ spans'.rows)]_vars

\* a Cleanup whose second DELETE failed after the first had deleted rows: old
\* metric rows are still there, the old span rows are not
C7_Witness ==
    /\ loop.pc = "returned" /\ loop.failedAt = "metrics"
    /\ loop.deleted > 0
    /\ \E r \in metrics.rows : r.timestamp < loop.cutoff
    /\ \A r \in spans.rows : ~(r.created_at < loop.cutoff)

\* C8 as the claim states it: a successful Cleanup that follows a successful
\* Cleanup, no row inserted in between, deletes no row.
C8_AsClaimed ==
    [][SecondDeleteReturns /\ ~loop'.err /\ loop.quiet => loop'.deleted = 0]_vars

\* C8: a successful Cleanup that follows a successful Cleanup, no row
\* inserted in between, deletes no row when its cutoff is not later than the
\* first one's (the clock has not moved on by a whole second).
C8_SameCutoffDeletesNothing ==
    [][SecondDeleteReturns /\ ~loop'.err /\ loop.quiet /\ loop.cutoff <= loop.lastCutoff
         => loop'.deleted = 0]_vars

\* the second of two Cleanups with the same cutoff, the first of which
\* deleted rows
C8_Witness ==
    /\ loop.pc = "returned" /\ ~loop.err
    /\ loop.quiet /\ loop.cutoff = loop.lastCutoff
    /\ loop.deleted = 0
    /\ hist.purged /= {}

-----------------------------------------------------------------------------
(* Properties of SpecPush: what one pushTraces call writes *)

\* the call has returned nil
PushedOk == push.op = "pushTraces" /\ push.pc = "done" /\ ~push.err

\* the span is dropped by the push: its JSON is wanted and cannot be made
Skipped(span) == cfg.StoreTraces /\ MarshalFails(span)

\* the spans of scope group i with sanitised name k: all of them, or those
\* the push does not drop
Members(i, k, all) ==
    {j \in DOMAIN push.batch[i].spans :
        /\ sanitizeMetricName(push.batch[i].spans[j].name) = k
        /\ all \/ ~Skipped(push.batch[i].spans[j])}

\* the <<scope group, sanitised name>> pairs that have spans
Aggregates(all) ==
    {p \in (DOMAIN push.batch) \X AllKeys : Members(p[1], p[2], all) /= {}}

RECURSIVE SumNs(_, _)
\* the sum over the spans S of max(0, end - start)
SumNs(spanSeq, S) ==
    IF S = {} THEN 0
    ELSE LET j == CHOOSE x \in S : TRUE
             d == spanSeq[j].end - spanSeq[j].start
         IN  (IF d > 0 THEN d ELSE 0) + SumNs(spanSeq, S \ {j})

ErrorMembers(p, all) ==
    {j \in Members(p[1], p[2], all) : push.batch[p[1]].spans[j].code = 2}

SpanCountOf(p, all) == Float(Cardinality(Members(p[1], p[2], all)), 1)
DurationMsOf(p, all) ==
    Float(SumNs(push.batch[p[1]].spans, Members(p[1], p[2], all)),
          NsPerMs * Cardinality(Members(p[1], p[2], all)))
ErrorCountOf(p, all) == Float(Cardinality(ErrorMembers(p, all)), 1)

\* the name of the point of pair p with the given suffix
PointName(p, suffix) ==
    MetricName(buildPrefix(cfg, sanitizeMetricName(ServiceNameRaw(push.batch[p[1]].resource)),
                           p[2]),
               suffix)

PointsNamed(name) == Cardinality({r \in metrics.rows : r.name = name})
PointsOf(name, value) ==
    Cardinality({r \in metrics.rows : r.name = name /\ r.value = value})

\* the metric rows are, for every pair, one span_count point, one duration_ms
\* point and, when it has error spans, one error_count point, with the values
\* of the pair (pairs of two scope groups may write the same name), and
\* nothing else
PointsAre(all) ==
    LET A == Aggregates(all)
        Same(p) == {q \in A : PointName(q, SpanCountSuffix) = PointName(p, SpanCountSuffix)}
    IN  /\ \A p \in A :
              /\ PointsNamed(PointName(p, SpanCountSuffix)) = Cardinality(Same(p))
              /\ PointsOf(PointName(p, SpanCountSuffix), SpanCountOf(p, all))
                   = Cardinality({q \in Same(p) : SpanCountOf(q, all) = SpanCountOf(p, all)})
              /\ PointsNamed(PointName(p, DurationMsSuffix)) = Cardinality(Same(p))
              /\ PointsOf(PointName(p, DurationMsSuffix), DurationMsOf(p, all))
                   = Cardinality({q \in Same(p) : DurationMsOf(q, all) = DurationMsOf(p, all)})
              /\ PointsNamed(PointName(p, ErrorCountSuffix))
                   = Cardinality({q \in Same(p) : ErrorMembers(q, all) /= {}})
              /\ ErrorMembers(p, all) /= {} =>
                   PointsOf(PointName(p, ErrorCountSuffix), ErrorCountOf(p, all))
                     = Cardinality({q \in Same(p) : ErrorCountOf(q, all) = ErrorCountOf(p, all)})
        /\ Cardinality(metrics.rows)
             = 2 * Cardinality(A) + Cardinality({p \in A : ErrorMembers(p, all) /= {}})

RECURSIVE Flatten(_)
\* the spans of a batch in order, each with its resource
Flatten(batch) ==
    IF batch = <<>> THEN <<>>
    ELSE [j \in DOMAIN Head(batch).spans |->
             [span |-> Head(batch).spans[j], resource |-> Head(batch).resource]]
         \o Flatten(Tail(batch))

Marshals(x) == ~MarshalFails(x.span)

\* the span rows are the documents of the batch's spans that have one, in order
SpanRowsAre ==
    LET docs == SelectSeq(Flatten(push.batch), Marshals)
    IN  /\ Cardinality(spans.rows) = Len(docs)
        /\ \A r \in spans.rows :
              /\ r.id \in DOMAIN docs
              /\ r.data = spanToJSON(docs[r.id].span, docs[r.id].resource)

\* C9: after a push that returned nil: with store_traces off there is no span
\* row, and the metric rows are those of the batch when send_metrics is on;
\* with send_metrics off there is no metric row, and the span rows are those
\* of the batch (one per span whose JSON can be made) when store_traces is on.
C9_Toggles ==
    PushedOk =>
        /\ ~cfg.StoreTraces =>
               spans.rows = {} /\ (cfg.SendMetrics => PointsAre(TRUE))
        /\ ~cfg.SendMetrics =>
               metrics.rows = {} /\ (cfg.StoreTraces => SpanRowsAre)

\* store_traces off, send_metrics on: metric rows written, also for a span
\* whose JSON could not have been made
C9_Witness ==
    /\ PushedOk
    /\ ~cfg.StoreTraces /\ cfg.SendMetrics
    /\ metrics.rows /= {} /\ spans.rows = {}
    /\ \E i \in DOMAIN push.batch : \E j \in DOMAIN push.batch[i].spans :
         MarshalFails(push.batch[i].spans[j])

\* C10 as the claim states it: the points count every span of the scope group
\* with the sanitised name.
C10_AsClaimed == PushedOk /\ cfg.SendMetrics => PointsAre(TRUE)

\* C10: with send_metrics on, for every scope group and every sanitised name
\* among its spans that the push did not drop (a span is dropped when
\* store_traces is on and its JSON cannot be made): exactly one span_count
\* point, the number of those spans; exactly one duration_ms point, the sum of
\* their max(0, end - start) in ms over their number; an error_count point
\* iff one of them has status code 2, the number of those.
C10_PointsPerName == PushedOk /\ cfg.SendMetrics => PointsAre(FALSE)

\* two spans of one scope group with different raw names and one sanitised
\* name, one of them an error span, pushed and aggregated into three points
C10_Witness ==
    /\ PushedOk /\ cfg.SendMetrics
    /\ \E p \in Aggregates(FALSE) :
         /\ Cardinality(Members(p[1], p[2], FALSE)) = 2
         /\ Cardinality(ErrorMembers(p, FALSE)) = 1
         /\ \E j, k \in Members(p[1], p[2], FALSE) :
              push.batch[p[1]].spans[j].name /= push.batch[p[1]].spans[k].name
    /\ Cardinality(metrics.rows) = 3

\* the first span of pair p in its scope group
FirstMember(p) ==
    CHOOSE j \in Members(p[1], p[2], FALSE) :
        \A i \in Members(p[1], p[2], FALSE) : j <= i

\* row is a point of pair p: its name is prefix[.namespace].service.span.suffix
\* with the sanitised names, free of the replaced characters, and its service
\* tag is the raw service name
PointOf(row, p) ==
    /\ row.name \in {PointName(p, SpanCountSuffix), PointName(p, DurationMsSuffix),
                     PointName(p, ErrorCountSuffix)}
    /\ \A i \in DOMAIN row.name : row.name[i] \notin metricNameReplacer
    /\ row.tags.service = ServiceNameRaw(push.batch[p[1]].resource)

\* C11 as the claim states it: every span a point counts has the raw name
\* that the point's span tag gives.
C11_AsClaimed ==
    PushedOk /\ cfg.SendMetrics =>
        \A row \in metrics.rows : \E p \in Aggregates(FALSE) :
            /\ PointOf(row, p)
            /\ \A j \in Members(p[1], p[2], FALSE) :
                 push.batch[p[1]].spans[j].name = row.tags.span

\* C11: every metric point a push writes has a name built from the sanitised
\* service name and the sanitised span name, a service tag that is the raw
\* service name, and a span tag that is the raw name of the first span (not
\* dropped) of its scope group with that sanitised name; spans with another
\* raw name and the same sanitised name are counted in the same point.
C11_TagsOfFirstSpan ==
    PushedOk /\ cfg.SendMetrics =>
        \A row \in metrics.rows : \E p \in Aggregates(FALSE) :
            /\ PointOf(row, p)
            /\ row.tags.span = push.batch[p[1]].spans[FirstMember(p)].name

\* a point whose span tag is the raw name of the first of two spans that
\* differ in their raw names, with a service name that sanitising changes
C11_Witness ==
    /\ PushedOk /\ cfg.SendMetrics
    /\ \E row \in metrics.rows : \E p \in Aggregates(FALSE) :
         /\ PointOf(row, p)
         /\ row.tags.span = push.batch[p[1]].spans[FirstMember(p)].name
         /\ row.tags.service /= sanitizeMetricName(row.tags.service)
         /\ \E j \in Members(p[1], p[2], FALSE) :
              push.batch[p[1]].spans[j].name /= row.tags.span

SpanMarshals(span) == ~MarshalFails(span)

\* the batch without the spans whose JSON cannot be made
Stripped(batch) ==
    [i \in DOMAIN batch |-> [batch[i] EXCEPT !.spans = SelectSeq(@, SpanMarshals)]]

\* the database after a successful first push of batch, for some order in which
\* the aggregator maps are ranged over
PushedAlone(batch) ==
    {IF NeedsInsert(col)
     THEN InsertData(NewDatabase, col.jsons, col.metrics, now, 1, TRUE)
     ELSE NewDatabase :
        col \in {Collected(cfg, batch, order, now) :
                    order \in [DOMAIN batch -> KeyOrders]}}

\* C12: with store_traces on (the only case in which a span is marshalled), a
\* push that returned nil has written exactly the rows that a push of the
\* batch without its unmarshallable spans writes; and a push returns an error
\* only when it had rows to write (never for a marshalling failure alone).
C12_BadSpanSkipped ==
    /\ PushedOk /\ cfg.StoreTraces => Committed \in PushedAlone(Stripped(push.batch))
    /\ push.pc = "done" /\ push.err => Len(push.jsons) + Len(push.recs) > 0

\* a push, returned nil, of a scope group with a span that cannot be marshalled
\* and one that can, both of one sanitised name: one span row, the points of
\* one span
C12_Witness ==
    /\ PushedOk /\ cfg.StoreTraces /\ cfg.SendMetrics
    /\ \E i \in DOMAIN push.batch : \E j, k \in DOMAIN push.batch[i].spans :
         /\ MarshalFails(push.batch[i].spans[j])
         /\ ~MarshalFails(push.batch[i].spans[k])
         /\ sanitizeMetricName(push.batch[i].spans[j].name)
              = sanitizeMetricName(push.batch[i].spans[k].name)
    /\ Cardinality(spans.rows) = 1
    /\ \E row \in metrics.rows : row.value = Float(1, 1)


\* the store reads that run with no write in progress or waiting
NoWriter == mu.w = NoOne

\* C13 as stated: with no write in progress or waiting, a read never waits,
\* neither for the lock nor for its query, however many reads are running
C13_AsClaimed ==
    \A r \in DOMAIN rd :
        NoWriter =>
            /\ rd[r].pc = "rlock" => ENABLED ReadLock(r)
            /\ rd[r].pc = "spans" /\ ~rd[r].conn => ENABLED QueryOpen(r)

\* C13: with no write in progress or waiting, a read takes the read lock
\* without waiting, and its query runs without waiting while fewer than
\* MaxOpenConns other queries hold a connection; with MaxOpenConns queries
\* running, a further query waits until one of them ends
C13_ReadersShareThePool ==
    \A r \in DOMAIN rd :
        NoWriter =>
            /\ rd[r].pc = "rlock" => ENABLED ReadLock(r)
            /\ rd[r].pc = "spans" /\ ~rd[r].conn =>
                   (ENABLED QueryOpen(r)) = (ConnsInUse < MaxOpenConns)

\* four lookups hold the four connections and a fifth waits for one, with no
\* writer about
C13_Witness ==
    /\ NoWriter
    /\ ConnsInUse = MaxOpenConns
    /\ \E r \in DOMAIN rd : rd[r].pc = "spans" /\ ~rd[r].conn

\* C14 as stated: every stored span row's duration_ns is end - start clamped
\* to at least 0, so it is never negative, also for a span that ends before
\* it starts
C14_AsClaimed ==
    \A row \in spans.rows :
        /\ duration_ns(row.data) >= 0
        /\ duration_ns(row.data) =
               IF row.data.end_time_unix_nano < row.data.start_time_unix_nano
               THEN 0
               ELSE row.data.end_time_unix_nano - row.data.start_time_unix_nano

\* the result of the last SearchTraces call of reader r, on the table as it is
Searched(r) == rd[r].kind = "SearchTraces"

StoredTrace(tid) == {q \in spans.rows : q.data.trace_id = tid}

Parentless(q) ==
    q.data.parent_span_id = "" \/ q.data.parent_span_id = "0000000000000000"

Earliest(S) ==
    {q \in S : \A o \in S : q.data.start_time_unix_nano <= o.data.start_time_unix_nano}

\* the spans the claim names as root of a trace
RootsOf(tid) ==
    LET ps == {q \in StoredTrace(tid) : Parentless(q)}
    IN  IF ps # {} THEN Earliest(ps) ELSE Earliest(StoredTrace(tid))

\* C15: every summary SearchTraces returns carries the service name and span
\* name of the trace's earliest-starting span with an empty or all-zero
\* parent_span_id, or of the trace's earliest-starting span when it has no
\* such span; a parentless span wins over a child that starts earlier
C15_RootRepresentative ==
    \A r \in DOMAIN rd :
        Searched(r) =>
            \A i \in DOMAIN rd[r].s :
                \E q \in RootsOf(rd[r].s[i].TraceID) :
                    /\ rd[r].s[i].RootServiceName = q.data.service_name
                    /\ rd[r].s[i].RootTraceName = q.data.span_name

\* a returned trace has a child span that starts before its parentless span,
\* and the summary names the parentless span
C15_Witness ==
    \E r \in DOMAIN rd :
        /\ Searched(r)
        /\ \E i \in DOMAIN rd[r].s :
             \E q, c \in StoredTrace(rd[r].s[i].TraceID) :
                 /\ Parentless(q) /\ ~Parentless(c)
                 /\ c.data.start_time_unix_nano < q.data.start_time_unix_nano
                 /\ rd[r].s[i].RootTraceName = q.data.span_name
                 /\ rd[r].s[i].RootTraceName # c.data.span_name

\* the summaries of reader r's result are those of the stored traces: start,
\* span count, status code and duration over all spans of the trace, and the
\* summaries are in descending order of start
SummariesOfWholeTraces(r) ==
    /\ \A i \in DOMAIN rd[r].s :
         LET su == rd[r].s[i]
             T == StoredTrace(su.TraceID)
             span == MaxOf({q.data.end_time_unix_nano : q \in T}) - su.StartTimeUnixNano
         IN  /\ T # {}
             /\ \E q \in T : su.StartTimeUnixNano = q.data.start_time_unix_nano
             /\ \A q \in T : su.StartTimeUnixNano <= q.data.start_time_unix_nano
             /\ su.SpanCount = Cardinality(T)
             /\ \E q \in T : su.StatusCode = q.data.status.code
             /\ \A q \in T : su.StatusCode >= q.data.status.code
             /\ su.DurationMs = IF span > 0 THEN span \div NsPerMs ELSE 0
    /\ \A i, j \in DOMAIN rd[r].s :
         i < j => /\ rd[r].s[i].StartTimeUnixNano >= rd[r].s[j].StartTimeUnixNano
                  /\ rd[r].s[i].TraceID # rd[r].s[j].TraceID

\* C16 as stated: the summaries are right and never more than limit
C16_AsClaimed ==
    \A r \in DOMAIN rd :
        Searched(r) => SummariesOfWholeTraces(r) /\ Len(rd[r].s) <= rd[r].m.Limit

\* C16: every summary SearchTraces returns has the minimum start, the number
\* and the maximum status code of all stored spans of its trace, and the
\* whole milliseconds from that start to the maximum end when that is
\* positive, else 0; the summaries come by start descending; they are at most
\* limit many when limit is positive, and with a limit of 0 every matching
\* trace is returned
C16_Summaries ==
    \A r \in DOMAIN rd :
        Searched(r) =>
            /\ SummariesOfWholeTraces(r)
            /\ rd[r].m.Limit > 0 => Len(rd[r].s) <= rd[r].m.Limit
            /\ rd[r].m.Limit <= 0 =>
                   {rd[r].s[i].TraceID : i \in DOMAIN rd[r].s}
                       = {q.data.trace_id : q \in Filtered(spans.rows, rd[r].m)}

\* a search by service with limit 1 on two matching traces returns one
\* summary, that of a trace in which a span of another service is counted
C16_Witness ==
    \E r \in DOMAIN rd :
        /\ Searched(r)
        /\ rd[r].m.ServiceName = <<"a">> /\ rd[r].m.Limit = 1
        /\ Cardinality({q.data.trace_id : q \in Filtered(spans.rows, rd[r].m)}) = 2
        /\ Len(rd[r].s) = 1
        /\ rd[r].s[1].SpanCount = 2
        /\ \E q \in StoredTrace(rd[r].s[1].TraceID) : q.data.service_name # <<"a">>

\* the responses of the endpoints that take a limit parameter, and the
\* limit a response's request asked for, when it asked for one
TakesLimit(r) == rd[r].kind \in {"handleSearchTraces", "handleListSpans"}

ListResponse(r) ==
    rd[r].kind \in {"handleSearchTraces", "handleListTraces", "handleListSpans",
                    "handleListExceptions"}

AsksFor(r) ==
    IF TakesLimit(r) /\ rd[r].m.req.limit.given /\ rd[r].m.req.limit.num
    THEN rd[r].m.req.limit.n
    ELSE 0

\* C17 as stated, for the requests that ask for a limit of at least 1 and
\* for those that ask for none: no list response has more items than the
\* limit asked for, nor more than 10000
C17_AsClaimed ==
    \A r \in DOMAIN rd :
        ListResponse(r) =>
            /\ Items(rd[r].s) <= 10000
            /\ AsksFor(r) >= 1 => Items(rd[r].s) <= AsksFor(r)

\* what holds of the three endpoints that return one item per stored row or
\* trace: never more than the limit asked for, nor more than 10000
RowEndpointsWithinLimit ==
    \A r \in DOMAIN rd :
        ListResponse(r) /\ rd[r].kind # "handleListExceptions" =>
            /\ Items(rd[r].s) <= 10000
            /\ AsksFor(r) >= 1 => Items(rd[r].s) <= AsksFor(r)

\* C18 as stated: whatever limit is asked for, /api/spans returns at most
\* 1000 spans
C18_AsClaimed ==
    \A r \in DOMAIN rd :
        rd[r].kind = "handleListSpans" => Items(rd[r].s) <= 1000

\* the stored spans a /api/spans request selects
Selected(r) ==
    LET rows == {row \in spans.rows :
                    rd[r].m.req.service # <<>> => row.data.service_name = rd[r].m.req.service}
        count[S \in SUBSET rows] ==
            IF S = {} THEN 0
            ELSE LET row == CHOOSE x \in S : TRUE IN row.n + count[S \ {row}]
    IN  count[rows]

\* C18: /api/spans returns the selected spans up to the limit asked for when
\* that is between 1 and 10000, up to 10000 when more is asked for, and up to
\* 1000 when no limit, no number or a number below 1 is given
C18_DefaultAndCap ==
    \A r \in DOMAIN rd :
        rd[r].kind = "handleListSpans" =>
            LET cap == IF AsksFor(r) >= 1
                       THEN (IF AsksFor(r) > 10000 THEN 10000 ELSE AsksFor(r))
                       ELSE 1000
            IN  Items(rd[r].s) = IF Selected(r) > cap THEN cap ELSE Selected(r)

\* a request for 1001 spans is answered with 1001 spans
C18_Witness ==
    \E r \in DOMAIN rd :
        /\ rd[r].kind = "handleListSpans"
        /\ AsksFor(r) = 1001
        /\ Items(rd[r].s) = 1001

\* the service the claim expects from the tags and the q parameters in use
ExpectedFromTags(tags) ==
    IF tags \in {TagsPlain, TagsQuoted} THEN <<"b">> ELSE <<>>

ExpectedFromQ(q) ==
    IF q = QueryResource THEN <<"a">> ELSE IF q = QuerySpaced THEN <<"b">> ELSE <<>>

IsAll(v) == v = <<"*">> \/ v = <<".", "*">>

\* C19: in trace search an operation of * or .* is no filter; a service
\* parameter that (trimmed) is neither empty nor * nor .* is the filter,
\* whatever tags and q say; otherwise the filter is the service named in
\* tags, and the service named in q only when tags names none
C19_ServiceFallback ==
    \A r \in DOMAIN rd :
        rd[r].kind = "handleSearchTraces" =>
            LET req == rd[r].m.req
                opts == rd[r].m.opts
                service == TrimSpace(req.service)
                operation == TrimSpace(req.operation)
            IN  /\ opts.SpanName = IF IsAll(operation) THEN <<>> ELSE operation
                /\ IF service # <<>> /\ ~IsAll(service)
                   THEN opts.ServiceName = service
                   ELSE opts.ServiceName =
                            IF ExpectedFromTags(req.tags) # <<>>
                            THEN ExpectedFromTags(req.tags)
                            ELSE ExpectedFromQ(req.q)

\* a search with service=*, a tags parameter that names no service and a q
\* that names service a finds the one trace of service a
C19_Witness ==
    \E r \in DOMAIN rd :
        /\ rd[r].kind = "handleSearchTraces"
        /\ rd[r].m.req.service = <<"*">>
        /\ rd[r].m.req.tags = TagsEmptyValue
        /\ rd[r].m.req.q = QueryResource
        /\ rd[r].m.opts.ServiceName = <<"a">>
        /\ Items(rd[r].s) = 1

\* the glob of the claim: * is any run of characters, ? exactly one
\* character, every other character only itself
RECURSIVE Glob(_, _)
Glob(query, name) ==
    IF query = <<>> THEN name = <<>>
    ELSE CASE Head(query) = "*" ->
                 \E k \in 0..Len(name) : Glob(Tail(query), SubSeq(name, k + 1, Len(name)))
           [] Head(query) = "?" ->
                 name # <<>> /\ Glob(Tail(query), Tail(name))
           [] OTHER ->
                 name # <<>> /\ Head(query) = Head(name) /\ Glob(Tail(query), Tail(name))

\* C20 as stated: a metric query finds a stored name exactly when the name
\* matches the query read as a glob
C20_AsClaimed ==
    \A r \in DOMAIN rd :
        rd[r].kind = "findMetricNodes" =>
            \A row \in metrics.rows :
                (row.name \in rd[r].m.read) = Glob(rd[r].m.query, row.name)

\* the same for names and queries that hold neither a backslash nor letters
\* that differ only in case
GlobOnPlainNames ==
    \A r \in DOMAIN rd :
        rd[r].kind = "findMetricNodes" =>
            \A row \in metrics.rows :
                (\A i \in DOMAIN row.name : row.name[i] \notin {"\\", "X"})
                /\ (\A i \in DOMAIN rd[r].m.query : rd[r].m.query[i] \notin {"\\", "X"})
                => (row.name \in rd[r].m.read) = Glob(rd[r].m.query, row.name)

-----------------------------------------------------------------------------
(* Properties of SpecFind: /metrics/find *)

\* a response to a non-empty plain query
FindResponse(r) ==
    /\ rd[r].kind = "handleFindMetrics"
    /\ rd[r].m.opts # <<>>
    /\ ~parseAliasSub(rd[r].m.opts).ok
    /\ ~parseAliasByNode(rd[r].m.opts).ok

\* the nodes the claim expects: the first d segments of every stored metric
\* name that matches the query, d the number of segments of the query
ExpectedNodes(query) ==
    {Node(row.name, Segments(query)) : row \in {x \in metrics.rows : Glob(query, x.name)}}

\* C21 as stated: for a non-empty plain query, /metrics/find returns exactly
\* the nodes at the query's depth of all stored metric names that match the
\* query, whatever the number of stored points, and lists no node twice
C21_AsClaimed ==
    \A r \in DOMAIN rd :
        FindResponse(r) =>
            /\ {rd[r].s[i].id : i \in DOMAIN rd[r].s} = ExpectedNodes(rd[r].m.opts)
            /\ \A i, j \in DOMAIN rd[r].s : i # j => rd[r].s[i].id # rd[r].s[j].id
            /\ \A i \in DOMAIN rd[r].s : rd[r].s[i].text = rd[r].s[i].id

RECURSIVE StoredPoints(_)
StoredPoints(rows) ==
    IF rows = {} THEN 0
    ELSE LET x == CHOOSE y \in rows : TRUE IN Points(x) + StoredPoints(rows \ {x})

\* the same when the matching points are no more than findMetricNodes reads
NodesWithinFindLimit ==
    \A r \in DOMAIN rd :
        FindResponse(r)
        /\ StoredPoints({x \in metrics.rows : Glob(rd[r].m.opts, x.name)}) <= findLimit
        => /\ {rd[r].s[i].id : i \in DOMAIN rd[r].s} = ExpectedNodes(rd[r].m.opts)
           /\ \A i, j \in DOMAIN rd[r].s : i # j => rd[r].s[i].id # rd[r].s[j].id

-----------------------------------------------------------------------------
(* Properties of SpecRender: /render *)

\* the response r holds is the answer to aliasSub(aliasByNode(X,1), "a", "b")
ComposedResponse(r) == rd[r].kind = "handleRenderMetrics" /\ rd[r].m.req.composed

\* the series of render(X), each under the name aliasByNode with index 1
\* and then aliasSub with a and b make of its name, with its datapoints
RelabelledPlain(X, a, b) ==
    {[i \in DOMAIN plain |->
         [target |-> aliasSub(aliasByNode(plain[i].target, <<1>>), a, b),
          datapoints |-> plain[i].datapoints]] :
        plain \in RenderTarget(metrics.rows, X)}

\* C22 as stated: for every pattern X and strings a, b, render of
\* aliasSub(aliasByNode(X,1), "a", "b") returns the series of render(X), each
\* renamed by aliasByNode with index 1 and then aliasSub with a, b, and each
\* with its datapoints
C22_AsClaimed ==
    \A r \in DOMAIN rd :
        ComposedResponse(r) =>
            rd[r].s \in RelabelledPlain(rd[r].m.req.X, rd[r].m.req.a, rd[r].m.req.b)

\* a string the function parser passes on as it is: no comma, no
\* parenthesis, no quote at either end
Verbatim(str) ==
    /\ \A i \in DOMAIN str : str[i] \notin {",", "(", ")"}
    /\ str = TrimCutset(str, QuoteChars)

\* C22, amended: the composition holds for every pattern X that is not blank
\* and strings a, b, when X, a and b hold no comma and no parenthesis and X
\* (without the whitespace around it), a and b neither begin nor end with a
\* quote
C22_Composition ==
    \A r \in DOMAIN rd :
        ComposedResponse(r)
        /\ TrimSpace(rd[r].m.req.X) # <<>>
        /\ Verbatim(TrimSpace(rd[r].m.req.X))
        /\ Verbatim(rd[r].m.req.a)
        /\ Verbatim(rd[r].m.req.b)
        => rd[r].s \in RelabelledPlain(rd[r].m.req.X, rd[r].m.req.a, rd[r].m.req.b)

\* render of aliasSub(aliasByNode(a.*,1), "a", "b") has answered with two
\* series, aliasByNode has cut their names and aliasSub has rewritten one
C22_Witness ==
    \E r \in DOMAIN rd :
        /\ ComposedResponse(r)
        /\ rd[r].m.req.X = <<" ", "a", ".", "*">>
        /\ rd[r].m.req.a = <<"a">>
        /\ rd[r].m.req.b = <<"b">>
        /\ Len(rd[r].s) = 2
        /\ {rd[r].s[i].target : i \in DOMAIN rd[r].s} = {<<"b">>}
        /\ {row.name : row \in metrics.rows} = {<<"a", ".", "b">>, <<"a", ".", "a">>}

-----------------------------------------------------------------------------
(* Properties of SpecAlias: aliasByNode *)

\* the segment of name with the number k, counted from 0: the characters
\* between the k-th dot and the next
SegmentAt(name, k) ==
    LET dots == {i \in DOMAIN name : name[i] = "."}
        from == IF k = 0 THEN 0
                ELSE CHOOSE d \in dots : Cardinality({e \in dots : e < d}) = k - 1
        rest == {d \in dots : d > from}
        to == IF rest = {} THEN Len(name) + 1 ELSE MinOf(rest)
    IN  SubSeq(name, from + 1, to - 1)

\* the number, from 0, of the segment an index names; a negative index
\* counts from the end
SegmentOf(name, idx) == IF idx < 0 THEN Segments(name) + idx ELSE idx

InRange(name, idx) == SegmentOf(name, idx) >= 0 /\ SegmentOf(name, idx) < Segments(name)

\* C23: aliasByNode returns the segments the indices select, in the order of
\* the indices and joined by dots, a negative index counting from the end
\* and an index out of range being skipped; when no index selects a segment
\* it returns the name unchanged
C23_SelectedSegments ==
    \A r \in DOMAIN rd :
        rd[r].kind = "aliasByNode" =>
            LET name == rd[r].m.req.metric
                selecting == SelectSeq(rd[r].m.req.idxs, LAMBDA idx : InRange(name, idx))
            IN  rd[r].s = IF selecting = <<>> THEN name
                          ELSE Join([i \in DOMAIN selecting |->
                                        SegmentAt(name, SegmentOf(name, selecting[i]))], <<".">>)

\* aliasByNode has made c.a of a.b.c and the indices -1, 0
C23_Witness ==
    \E r \in DOMAIN rd :
        /\ rd[r].kind = "aliasByNode"
        /\ rd[r].m.req.metric = <<"a", ".", "b", ".", "c">>
        /\ rd[r].m.req.idxs = <<0 - 1, 0>>
        /\ rd[r].s = <<"c", ".", "a">>

\* an index out of range is skipped, and a name no index selects from is
\* returned as it is
AliasOutOfRange ==
    \A r \in DOMAIN rd :
        rd[r].kind = "aliasByNode" /\ rd[r].m.req.metric = <<"a", ".", "b">> =>
            /\ rd[r].m.req.idxs = <<2, 1>> => rd[r].s = <<"b">>
            /\ rd[r].m.req.idxs = <<0 - 3, 2>> => rd[r].s = <<"a", ".", "b">>
            /\ rd[r].m.req.idxs = <<0 - 2, 0 - 1>> => rd[r].s = <<"a", ".", "b">>

-----------------------------------------------------------------------------
(* Properties of SpecTempo: stored spans in the Tempo shape *)

\* the status code the claim gives a stored span
ClaimedStatusCode(m) ==
    IF "code" \in DOMAIN m.status /\ m.status.code = 1 THEN "STATUS_CODE_OK"
    ELSE IF "code" \in DOMAIN m.status /\ m.status.code = 2 THEN "STATUS_CODE_ERROR"
    ELSE "STATUS_CODE_UNSET"

\* the spans of a response, each with the stored document it was made of
ConvertedSpans(r) ==
    {<<m, otlp>> \in
        UNION {{<<rd[r].m.read[i], rd[r].s[service][k]>> : i \in DOMAIN rd[r].m.read,
                                                          k \in DOMAIN rd[r].s[service]} :
                  service \in DOMAIN rd[r].s} :
        m.span_id = otlp.spanId}

\* C24 as stated: on every path that converts a stored span to the Tempo
\* shape, status code 1 becomes STATUS_CODE_OK, 2 becomes STATUS_CODE_ERROR,
\* and every other code, 0 and a missing one among them, STATUS_CODE_UNSET
C24_AsClaimed ==
    \A r \in DOMAIN rd :
        rd[r].kind \in {"handleGetTrace", "handleGetTraceOld"} =>
            \A pair \in ConvertedSpans(r) : pair[2].status = [code |-> ClaimedStatusCode(pair[1])]

\* the same on the path through query_tempo.go alone
StatusOnTheNewPath ==
    \A r \in DOMAIN rd :
        rd[r].kind = "handleGetTrace" =>
            /\ Cardinality(ConvertedSpans(r)) = Len(rd[r].m.read)
            /\ \A pair \in ConvertedSpans(r) : pair[2].status = [code |-> ClaimedStatusCode(pair[1])]

-----------------------------------------------------------------------------
(* Properties of SpecExceptions: /api/exceptions *)

\* the name holds the word exception, in letters of either case
NamesAnException(name) ==
    \E at \in 0..(Len(name) - Len(ExceptionWord)) :
        \A k \in DOMAIN ExceptionWord : ToLower(<<name[at + k]>>) = <<ExceptionWord[k]>>

\* the places, among the events of a span, of its exception events
ExceptionEventsOf(data) ==
    {j \in DOMAIN data.events : NamesAnException(data.events[j].name)}

\* C25: for every span with status code 2 that /api/exceptions read, the
\* response holds one record for each event of the span whose name contains
\* "exception" in either case, and exactly one synthesised record, with the
\* start of the span and its status message, when the span has no such
\* event; so every such span yields at least one record
C25_RecordsPerSpan ==
    \A r \in DOMAIN rd :
        rd[r].kind = "handleListExceptions" =>
            /\ Len(rd[r].s) = Len(rd[r].m.read)
            /\ \A i \in DOMAIN rd[r].m.read :
                 LET data == rd[r].m.read[i].item
                     records == rd[r].s[i].records
                 IN  /\ data.status.code = StatusCodeError
                     /\ rd[r].s[i].item = data
                     /\ Len(records) >= 1
                     /\ \A k \in DOMAIN records : records[k].record.trace_id = data.trace_id
                     /\ IF ExceptionEventsOf(data) = {}
                        THEN /\ Len(records) = 1
                             /\ records[1].event = 0
                             /\ records[1].timestamp = data.start_time_unix_nano \div NsPerMs
                             /\ records[1].message = data.status.message
                        ELSE /\ Len(records) = Cardinality(ExceptionEventsOf(data))
                             /\ {records[k].event : k \in DOMAIN records}
                                   = {data.events[j].id : j \in ExceptionEventsOf(data)}

\* /api/exceptions has answered with two records for a span with the events
\* Exception, log and app.EXCEPTION.raised and with one synthesised record
\* for a span whose only event is named except
C25_Witness ==
    \E r \in DOMAIN rd :
        /\ rd[r].kind = "handleListExceptions"
        /\ Len(rd[r].s) = 2
        /\ \E i, j \in DOMAIN rd[r].s :
             /\ Len(rd[r].m.read[i].item.events) = 3
             /\ Len(rd[r].s[i].records) = 2
             /\ {rd[r].s[i].records[k].event : k \in 1..2} = {1, 3}
             /\ Len(rd[r].m.read[j].item.events) = 1
             /\ rd[r].m.read[j].item.events[1].name = <<"e", "x", "c", "e", "p", "t">>
             /\ Len(rd[r].s[j].records) = 1
             /\ rd[r].s[j].records[1].event = 0

-----------------------------------------------------------------------------
(* Properties of SpecLog: the logging middleware *)

\* C26 as stated: the body the next handler receives is the whole body of
\* the request, whether the logger is at debug level or not and whatever
\* the length of the body
C26_AsClaimed ==
    \A r \in DOMAIN rd :
        rd[r].kind = "loggingMiddleware" => rd[r].s.seen = rd[r].m.req.body

\* the same for bodies of no more than maxLoggedBodyBytes + 1 bytes
BodyWithinLogLimit ==
    \A r \in DOMAIN rd :
        rd[r].kind = "loggingMiddleware"
        /\ BodyLen(rd[r].m.req.body) <= maxLoggedBodyBytes + 1
        => rd[r].s.seen = rd[r].m.req.body

-----------------------------------------------------------------------------
(* Properties of SpecFrame: stored rows are never changed *)

\* a step of Cleanup that deletes rows
CleanupDeletes == CleanupSpans \/ CleanupMetrics

\* C27: a stored row is never changed after its insertion: every store
\* operation other than Cleanup leaves all rows stored before in both
\* tables as they were, and the query operations change no row at all
C27_RowsNeverChange ==
    [][ /\ ~CleanupDeletes => /\ spans.rows \subseteq spans'.rows
                              /\ metrics.rows \subseteq metrics'.rows
        /\ CleanupDeletes => /\ spans'.rows \subseteq spans.rows
                             /\ metrics'.rows \subseteq metrics.rows
        /\ ReadSteps => UNCHANGED <<spans, metrics>> ]_vars

\* a push has added rows to the rows of the old database, which are all
\* still stored, and a handler has read both tables since
C27_Witness ==
    /\ OldDatabase.spans.rows \subseteq spans.rows
    /\ OldDatabase.metrics.rows \subseteq metrics.rows
    /\ spans.rows # OldDatabase.spans.rows
    /\ metrics.rows # OldDatabase.metrics.rows
    /\ push.pc = "done" /\ ~push.err
    /\ \E r \in Handlers : rd[r].kind = "Stats" /\ rd[r].pc = "runlock"
                           /\ rd[r].s[1][1] > 0 /\ rd[r].m[1][1] > 0

-----------------------------------------------------------------------------
(* Properties of SpecLife: the store at the end of shutdown *)

\* shutdown has called Checkpoint or Close
StoreShutDown == \E i \in DOMAIN life.log : life.log[i] \in {"checkpoint", "close"}

\* a store operation called by a handler is under way: called and not returned
ReadInProgress(r) == rd[r].pc \in {"rlock", "spans", "metrics", "runlock"}

\* a store operation called by the retention loop is under way
CleanupInProgress == loop.pc \in {"lock", "wait", "spans", "metrics"}

\* C28: once shutdown has checkpointed or closed the store, no store
\* operation is started or still in progress on behalf of the retention loop
\* or of an HTTP request handler, also when the graceful HTTP shutdown ended
\* because its deadline expired while handlers were still running.
C28_AsClaimed ==
    StoreShutDown =>
        /\ ~CleanupInProgress
        /\ \A r \in Handlers : ~ReadInProgress(r)

\* the same statement without the expired deadline: it holds of the
\* retention loop always, and of the handlers when server.Shutdown returned
\* because no handler was running
QuiescentUnlessDeadline ==
    StoreShutDown =>
        /\ ~CleanupInProgress
        /\ ~life.expired => \A r \in Handlers : ~ReadInProgress(r)

\* the store is closed while a handler's query is inside it
ReadsAClosedStore ==
    /\ life.store = "closed"
    /\ life.expired
    /\ \E r \in Handlers : ReadInside(r)

-----------------------------------------------------------------------------
(* Properties of SpecSearch: the service and operation filters together *)

\* reader r's last call was SearchTraces with a service and an operation filter
SearchedBoth(r) ==
    /\ Searched(r)
    /\ rd[r].m.ServiceName # <<>>
    /\ rd[r].m.SpanName # <<>>

\* C29: SearchTraces called with both a service filter and an operation
\* filter returns a trace only if at least one single span of that trace has
\* both that service name and that span name.
C29_AsClaimed ==
    \A r \in DOMAIN rd :
        SearchedBoth(r) =>
            \A i \in DOMAIN rd[r].s :
                \E q \in StoredTrace(rd[r].s[i].TraceID) :
                    /\ q.data.service_name = rd[r].m.ServiceName
                    /\ q.data.span_name = rd[r].m.SpanName

\* C29, as the code has it: SearchTraces called with both a service filter
\* and an operation filter returns a trace only if some span of that trace
\* has that service name and some span of that trace, the same or another
\* one, has that span name.
C29_EachFilterSomeSpan ==
    \A r \in DOMAIN rd :
        SearchedBoth(r) =>
            \A i \in DOMAIN rd[r].s :
                /\ \E q \in StoredTrace(rd[r].s[i].TraceID) :
                       q.data.service_name = rd[r].m.ServiceName
                /\ \E q \in StoredTrace(rd[r].s[i].TraceID) :
                       q.data.span_name = rd[r].m.SpanName

\* a search with both filters returned a trace in which one span has the
\* service name, another has the span name, and none has both, while another
\* stored trace was left out
C29_Witness ==
    \E r \in DOMAIN rd :
        /\ SearchedBoth(r)
        /\ \E i \in DOMAIN rd[r].s :
             /\ \E q, o \in StoredTrace(rd[r].s[i].TraceID) :
                    /\ q.data.service_name = rd[r].m.ServiceName
                    /\ o.data.span_name = rd[r].m.SpanName
             /\ \A q \in StoredTrace(rd[r].s[i].TraceID) :
                    ~(/\ q.data.service_name = rd[r].m.ServiceName
                      /\ q.data.span_name = rd[r].m.SpanName)
        /\ \E q \in spans.rows :
               \A i \in DOMAIN rd[r].s : rd[r].s[i].TraceID # q.data.trace_id

-----------------------------------------------------------------------------
(* Properties of SpecPush: the metric rows and the store_traces setting *)

\* the names and values of the rows of a metrics table, each with the number
\* of rows that carry it
NamesAndValues(tbl) ==
    {<<row.name, row.value,
       Cardinality({q \in tbl.rows : q.name = row.name /\ q.value = row.value})>> :
        row \in tbl.rows}

\* the database after a successful first push of batch under configuration c,
\* for some order in which the aggregator maps are ranged over
PushedUnder(c, batch) ==
    {IF NeedsInsert(col)
     THEN InsertData(NewDatabase, col.jsons, col.metrics, now, 1, TRUE)
     ELSE NewDatabase :
        col \in {Collected(c, batch, order, now) :
                    order \in [DOMAIN batch -> KeyOrders]}}

\* the configuration with the other store_traces setting
OtherStoreTraces(c) == [c EXCEPT !.StoreTraces = ~@]

SameMetricsEitherWay ==
    \E db \in PushedUnder(OtherStoreTraces(cfg), push.batch) :
        NamesAndValues(db.metrics) = NamesAndValues(metrics)

AllSpansMarshal(batch) ==
    \A i \in DOMAIN batch : \A j \in DOMAIN batch[i].spans :
        ~MarshalFails(batch[i].spans[j])

=============================================================================
